---- MODULE Spec2Model ----
(***************************************************************************)
(* Swarm task coordination and consensus core of Synapse-Agent.            *)
(*                                                                         *)
(*   - AdvancedSwarmConsensus (core-swarm-engine/coordination): auction    *)
(*     allocation, expertise-weighted voting and the learned tables.       *)
(*   - SwarmManager task executor (SWARM_INTELLIGENCE_TECHNICAL_           *)
(*     DOCUMENTATION.md): individual, collaborative and distributed        *)
(*     execution, consensus over agent results.                            *)
(*                                                                         *)
(* JavaScript numbers are modelled as exact rationals <<n, d>>, d > 0, in  *)
(* lowest terms, so equality of numbers is equality of pairs.              *)
(***************************************************************************)
EXTENDS Integers, Sequences, FiniteSets, TLC

VARIABLES
    agentExpertise,     \* AdvancedSwarmConsensus.agentExpertise  : Map<string, number>
    culturalWeights,    \* AdvancedSwarmConsensus.culturalWeights : Map<string, number>
    decisionHistory,    \* AdvancedSwarmConsensus.decisionHistory : SwarmDecision[]
    expertiseUpdates,   \* number of updateAgentExpertise calls made so far
    culturalUpdates,    \* number of updateCulturalWeights calls made so far
    pending,            \* the engine call a client is about to make, with its arguments
    lastCall,           \* the last engine operation called, with its arguments
    lastResult,         \* what that call returned
    agents,             \* SwarmManager.agents : ids of the registered agents
    tasks,              \* SwarmManager.tasks  : Map<string, SwarmTask>
    exec,               \* per task: where its execute*Task call stands
    events,             \* the notifications emitted so far, in order
    culturalIntelligence, \* SwarmManager.configuration.culturalIntelligence
    totalTasksCompleted, \* SwarmManager.metrics.totalTasksCompleted
    agentObjects,       \* the BaseAgent objects by id: workload, capabilities, history, trust
    agentNetworks,      \* SwarmManager.agentNetworks : Map<string, AgentNetwork>
    assignmentLog,      \* the agents successive selectRoundRobin calls returned, in order
    active_swarms,      \* orchestrator SwarmManager.active_swarms : Map<string, ActiveSwarm>
    runs,               \* per executeSwarmTask call: where it stands and what it holds
    lastCreate          \* the last createSwarm call: its configuration and outcome

vars == <<agentExpertise, culturalWeights, decisionHistory, expertiseUpdates,
          culturalUpdates, pending, lastCall, lastResult, agents, tasks, exec,
          events, culturalIntelligence, totalTasksCompleted, agentObjects,
          agentNetworks, assignmentLog, active_swarms, runs, lastCreate>>

engineVars == <<agentExpertise, culturalWeights, decisionHistory,
                expertiseUpdates, culturalUpdates, pending, lastCall, lastResult>>

managerVars == <<agents, tasks, exec, events, culturalIntelligence, totalTasksCompleted>>

strategyVars == <<agentObjects, agentNetworks, assignmentLog>>

orchestratorVars == <<active_swarms, runs, lastCreate>>

----------------------------------------------------------------------------
(* Bounds of the model *)

\* learning updates (of either table) in the engine specification
MaxUpdates == 1
\* updateAgentExpertise calls in the expertise-learning specification
MaxLearnUpdates == 9
\* updateCulturalWeights calls in the cultural-learning specification
MaxWeightUpdates == 3
\* bids per auction
MaxBids == 2
\* proposals per vote
MaxProposals == 2
\* recorded decisions
MaxHistory == 2
\* agents assigned to one task
MaxAssigned == 3
\* required capabilities of one task
MaxCapabilities == 2

\* reviewers of one peer review
MaxReviewers == 3

\* agents handed to adaptiveConsensus
MaxListed == 4

\* calls of executeSwarmTask, which may overlap
MaxRuns == 2
\* updates of the learned tables in the specification of the tables
MaxTableUpdates == 2
\* successive calls of selectRoundRobin
MaxAssignments == 4
\* tasks completed between them
MaxCompleted == 3

AgentIds == {"A", "B"}
Contexts == {"ctx", "alt"}
TaskIds == {"t1"}
Capabilities == {"a", "b"}

----------------------------------------------------------------------------
(* Exact rational arithmetic standing for JavaScript number arithmetic *)

Abs(x) == IF x < 0 THEN -x ELSE x

RECURSIVE GCD(_, _)
GCD(a, b) == IF b = 0 THEN a ELSE GCD(b, a % b)

LCM(a, b) == (a \div GCD(a, b)) * b

Rat(n, d) == LET g == GCD(Abs(n), d) IN <<n \div g, d \div g>>

Zero == <<0, 1>>
One == <<1, 1>>

RAdd(a, b) ==
    LET l == LCM(a[2], b[2])
    IN  Rat(a[1] * (l \div a[2]) + b[1] * (l \div b[2]), l)

RNeg(a) == <<-a[1], a[2]>>

RSub(a, b) == RAdd(a, RNeg(b))

RMul(a, b) ==
    LET g1 == GCD(Abs(a[1]), b[2])
        g2 == GCD(Abs(b[1]), a[2])
    IN  Rat((a[1] \div g1) * (b[1] \div g2), (a[2] \div g2) * (b[2] \div g1))

\* a / b for b > 0
RDiv(a, b) == RMul(a, <<b[2], b[1]>>)

RLess(a, b) == a[1] * b[2] < b[1] * a[2]

RLeq(a, b) == a[1] * b[2] <= b[1] * a[2]

\* Math.max / Math.min
RMax(a, b) == IF RLess(a, b) THEN b ELSE a
RMin(a, b) == IF RLess(b, a) THEN b ELSE a

RECURSIVE RSum(_)
RSum(s) == IF s = <<>> THEN Zero ELSE RAdd(s[1], RSum(Tail(s)))

----------------------------------------------------------------------------
(* Maps *)

EmptyMap == [k \in {} |-> Zero]

\* a set that stores the value under every key of the map
MapSetEvery(m, k, v) == [x \in (DOMAIN m) \cup {k} |-> v]

MapSet(m, k, v) == [x \in (DOMAIN m) \cup {k} |-> IF x = k THEN v ELSE m[x]]

\* map.get(k) || dflt : the default replaces a missing entry and a stored 0
GetOr(m, k, dflt) == IF k \in DOMAIN m /\ m[k] # Zero THEN m[k] ELSE dflt

----------------------------------------------------------------------------
(* AdvancedSwarmConsensus: scoring and auction *)

\* Array.prototype.slice(from, to) with 0-based, end-exclusive indices
Slice(s, from, to) ==
    IF from >= Len(s) THEN <<>>
    ELSE SubSeq(s, from + 1, IF to < Len(s) THEN to ELSE Len(s))

\* calculateCompositeScore with the learned expertise bonus forgotten
calculateCompositeScoreNoBonus(bid, culturalContext) ==
    LET culturalBonus == GetOr(culturalWeights, culturalContext, One)
    IN  RAdd(RAdd(RAdd(RAdd(
            RMul(bid.confidence, Rat(3, 10)),
            RMul(bid.expertise, Rat(1, 4))),
            RMul(RMul(bid.culturalRelevance, Rat(1, 5)), culturalBonus)),
            RMul(RDiv(One, bid.estimatedTime), Rat(3, 20))),
            RMul(RDiv(One, bid.resourceCost), Rat(1, 10)))

\* calculateCompositeScore(bid, culturalContext)
calculateCompositeScore(bid, culturalContext) ==
    LET culturalBonus == GetOr(culturalWeights, culturalContext, One)
        expertiseBonus == GetOr(agentExpertise, bid.agentId, Rat(1, 2))
    IN  RAdd(RAdd(RAdd(RAdd(RAdd(
            RMul(bid.confidence, Rat(3, 10)),
            RMul(bid.expertise, Rat(1, 4))),
            RMul(RMul(bid.culturalRelevance, Rat(1, 5)), culturalBonus)),
            RMul(RDiv(One, bid.estimatedTime), Rat(3, 20))),
            RMul(RDiv(One, bid.resourceCost), Rat(1, 10))),
            RMul(expertiseBonus, Rat(1, 10)))

\* bids.map(bid => ({...bid, compositeScore}))
ScoreBids(bids, culturalContext) ==
    [i \in 1..Len(bids) |->
        [bid |-> bids[i],
         compositeScore |-> calculateCompositeScore(bids[i], culturalContext)]]

\* One insertion of the stable sort under (a, b) => b.compositeScore - a.compositeScore:
\* x goes behind every element that does not score less than x.
RECURSIVE InsertByScore(_, _)
InsertByScore(x, sorted) ==
    IF sorted = <<>> THEN <<x>>
    ELSE IF RLess(Head(sorted).compositeScore, x.compositeScore)
         THEN <<x>> \o sorted
         ELSE <<Head(sorted)>> \o InsertByScore(x, Tail(sorted))

\* scoredBids.sort((a, b) => b.compositeScore - a.compositeScore), a stable sort
RECURSIVE SortByScore(_)
SortByScore(scored) ==
    IF scored = <<>> THEN <<>>
    ELSE InsertByScore(scored[Len(scored)],
                       SortByScore(SubSeq(scored, 1, Len(scored) - 1)))

\* validateConsensus with the cap at 1.0 forgotten
validateConsensusNoCap(sorted, culturalContext) ==
    IF Len(sorted) = 0 THEN Zero
    ELSE LET topScore == sorted[1].compositeScore
             secondScore == IF Len(sorted) >= 2 THEN sorted[2].compositeScore ELSE Zero
             scoreGap == RSub(topScore, secondScore)
             culturalAlignment == GetOr(culturalWeights, culturalContext, One)
         IN  RMul(scoreGap, culturalAlignment)

\* validateConsensus(bids, culturalContext) on the sorted scored bids
validateConsensus(sorted, culturalContext) ==
    IF Len(sorted) = 0 THEN Zero
    ELSE LET topScore == sorted[1].compositeScore
             secondScore == IF Len(sorted) >= 2 THEN sorted[2].compositeScore ELSE Zero
             scoreGap == RSub(topScore, secondScore)
             culturalAlignment == GetOr(culturalWeights, culturalContext, One)
         IN  RMin(RMul(scoreGap, culturalAlignment), One)

\* generateCulturalAdaptations(bid, culturalContext): the fields that depend on state
generateCulturalAdaptations(bid, culturalContext) ==
    [context |-> culturalContext,
     agentExpertise |-> GetOr(agentExpertise, bid.agentId, Rat(1, 2))]

RECURSIVE FilterReports(_)
FilterReports(s) ==
    IF s = <<>> THEN <<>>
    ELSE IF RLess(Rat(3, 5), Head(s).compositeScore)
         THEN <<[agentId |-> Head(s).bid.agentId,
                 confidence |-> Head(s).bid.confidence]>> \o FilterReports(Tail(s))
         ELSE FilterReports(Tail(s))

NoAdaptations == [context |-> "none", agentExpertise |-> Zero]

\* auctionBasedAllocation whose empty-bids result names no sentinel agent
auctionBasedAllocationNoSentinel(bids, culturalContext) ==
    IF Len(bids) = 0
    THEN [selectedAgent |-> "",
          consensusScore |-> Zero,
          minorityReports |-> <<>>,
          culturalAdaptations |-> NoAdaptations]
    ELSE LET scoredBids == SortByScore(ScoreBids(bids, culturalContext))
             topBid == scoredBids[1].bid
         IN  [selectedAgent |-> topBid.agentId,
              consensusScore |-> validateConsensus(scoredBids, culturalContext),
              minorityReports |-> FilterReports(Slice(scoredBids, 1, 4)),
              culturalAdaptations |-> generateCulturalAdaptations(topBid, culturalContext)]

\* auctionBasedAllocation(taskId, bids, culturalContext)
auctionBasedAllocation(bids, culturalContext) ==
    IF Len(bids) = 0
    THEN [selectedAgent |-> "default",
          consensusScore |-> Zero,
          minorityReports |-> <<>>,
          culturalAdaptations |-> NoAdaptations]
    ELSE LET scoredBids == SortByScore(ScoreBids(bids, culturalContext))
             topBid == scoredBids[1].bid
         IN  [selectedAgent |-> topBid.agentId,
              consensusScore |-> validateConsensus(scoredBids, culturalContext),
              minorityReports |-> FilterReports(Slice(scoredBids, 1, 4)),
              culturalAdaptations |-> generateCulturalAdaptations(topBid, culturalContext)]

----------------------------------------------------------------------------
(* AdvancedSwarmConsensus: expertise-weighted voting *)

\* Map.set on a Map kept as its entries <<key, value>> in insertion order:
\* an existing key keeps its place and takes the new value.
RECURSIVE EntriesSet(_, _, _)
EntriesSet(entries, k, v) ==
    IF entries = <<>> THEN <<<<k, v>>>>
    ELSE IF Head(entries)[1] = k
         THEN <<<<k, v>>>> \o Tail(entries)
         ELSE <<Head(entries)>> \o EntriesSet(Tail(entries), k, v)

\* the loop over the proposals that fills `votes`
RECURSIVE CollectVotes(_, _, _)
CollectVotes(proposals, culturalContext, votes) ==
    IF proposals = <<>> THEN votes
    ELSE LET proposal == Head(proposals)
             expertise == GetOr(agentExpertise, proposal.agentId, Rat(1, 2))
             culturalWeight == GetOr(culturalWeights, culturalContext, One)
             adjustedWeight == RMul(RMul(expertise, culturalWeight), proposal.confidence)
         IN  CollectVotes(Tail(proposals), culturalContext,
                          EntriesSet(votes, proposal.agentId, adjustedWeight))

RECURSIVE InsertByWeight(_, _)
InsertByWeight(x, sorted) ==
    IF sorted = <<>> THEN <<x>>
    ELSE IF RLess(Head(sorted)[2], x[2])
         THEN <<x>> \o sorted
         ELSE <<Head(sorted)>> \o InsertByWeight(x, Tail(sorted))

\* Array.from(votes.entries()).sort((a, b) => b[1] - a[1])
RECURSIVE SortVotes(_)
SortVotes(entries) ==
    IF entries = <<>> THEN <<>>
    ELSE InsertByWeight(entries[Len(entries)],
                        SortVotes(SubSeq(entries, 1, Len(entries) - 1)))

\* proposals.find(p => p.agentId === id)?.proposal || null
RECURSIVE FindProposal(_, _)
FindProposal(proposals, id) ==
    IF proposals = <<>> THEN "null"
    ELSE IF Head(proposals).agentId = id THEN Head(proposals).proposal
         ELSE FindProposal(Tail(proposals), id)

\* the SwarmDecision expertiseWeightedVoting builds (taskId, a timestamp, left out)
expertiseWeightedVoting(proposals, culturalContext) ==
    IF Len(proposals) = 0
    THEN [decision |-> "null", confidence |-> Zero,
          participatingAgents |-> <<>>, culturalContext |-> culturalContext]
    ELSE LET votes == CollectVotes(proposals, culturalContext, <<>>)
             totalWeight == RSum([i \in 1..Len(votes) |-> votes[i][2]])
             sortedVotes == SortVotes(votes)
             winner == sortedVotes[1]
             consensusStrength == IF RLess(Zero, totalWeight)
                                  THEN RDiv(winner[2], totalWeight) ELSE Zero
         IN  [decision |-> FindProposal(proposals, winner[1]),
              confidence |-> consensusStrength,
              participatingAgents |-> [i \in 1..Len(proposals) |-> proposals[i].agentId],
              culturalContext |-> culturalContext]

\* the history of a vote that keeps its latest decision only
RecordDecisionLatest(proposals, decision) ==
    IF Len(proposals) = 0 THEN decisionHistory
    ELSE <<decision>>

\* the history of a vote that stores its decision whatever the proposals
RecordDecisionAlways(proposals, decision) ==
    Append(decisionHistory, decision)

\* this.decisionHistory once expertiseWeightedVoting(proposals, ...) has returned decision:
\* the early return on no proposals comes before the push
RecordDecision(proposals, decision) ==
    IF Len(proposals) = 0 THEN decisionHistory
    ELSE Append(decisionHistory, decision)

\* getConsensusMetrics(): with no decision the average is 0 / 0 = NaN
getConsensusMetrics ==
    [totalDecisions |-> Len(decisionHistory),
     averageConfidence |->
         IF Len(decisionHistory) = 0 THEN <<0, 0>>
         ELSE RDiv(RSum([i \in 1..Len(decisionHistory) |-> decisionHistory[i].confidence]),
                   Rat(Len(decisionHistory), 1)),
     culturalCoverage |->
         Cardinality({decisionHistory[i].culturalContext : i \in 1..Len(decisionHistory)})]

----------------------------------------------------------------------------
(* AdvancedSwarmConsensus: peer review *)

\* new AdvancedSwarmConsensus(): threshold = 0.7
consensusThreshold == Rat(7, 10)

\* content ? JSON.stringify(content).length / 1000 : 1, content being given by
\* whether it is there and by the length of its JSON text
ContentComplexity(content) ==
    IF content.present THEN Rat(content.length, 1000) ELSE One

\* Math.random() < approvalProbability can come out as `approved`:
\* Math.random() is any number of [0, 1)
CanDraw(approved, approvalProbability) ==
    IF approved THEN RLess(Zero, approvalProbability)
    ELSE RLess(approvalProbability, One)

\* simulateReview(content, reviewerId, culturalContext), `approved` being what
\* the random draw decided
simulateReview(content, reviewerId, culturalContext, approved) ==
    LET expertise == GetOr(agentExpertise, reviewerId, Rat(1, 2))
        culturalWeight == GetOr(culturalWeights, culturalContext, One)
        approvalProbability ==
            RDiv(RMul(expertise, culturalWeight),
                 RAdd(One, RMul(ContentComplexity(content), Rat(1, 10))))
    IN  [approved |-> approved,
         possible |-> CanDraw(approved, approvalProbability),
         feedback |-> IF approved THEN "Approved with minor suggestions"
                      ELSE "Requires cultural adaptation",
         culturalScore |-> RMul(expertise, culturalWeight)]

\* reviews.filter(r => r.approved).length
Approvals(reviews) == Len(SelectSeq(reviews, LAMBDA r : r.approved))

\* the end of peerReviewConsensus approving on a bare majority
peerReviewResultMajority(reviews) ==
    IF Len(reviews) = 0
    THEN [approved |-> FALSE, feedback |-> <<>>, culturalScore |-> <<0, 0>>,
          reviews |-> reviews]
    ELSE [approved |-> RLeq(Rat(1, 2), Rat(Approvals(reviews), Len(reviews))),
          feedback |-> [i \in 1..Len(reviews) |-> reviews[i].feedback],
          culturalScore |->
              RDiv(RSum([i \in 1..Len(reviews) |-> reviews[i].culturalScore]),
                   Rat(Len(reviews), 1)),
          reviews |-> reviews]

\* the end of peerReviewConsensus, from the reviews: approvalRate, culturalScore,
\* feedback and the returned record (`reviews` is kept beside it, for reference).
\* With no reviewer both quotients are 0 / 0, and NaN >= threshold is false.
peerReviewResult(reviews) ==
    IF Len(reviews) = 0
    THEN [approved |-> FALSE, feedback |-> <<>>, culturalScore |-> <<0, 0>>,
          reviews |-> reviews]
    ELSE [approved |-> RLeq(consensusThreshold, Rat(Approvals(reviews), Len(reviews))),
          feedback |-> [i \in 1..Len(reviews) |-> reviews[i].feedback],
          culturalScore |->
              RDiv(RSum([i \in 1..Len(reviews) |-> reviews[i].culturalScore]),
                   Rat(Len(reviews), 1)),
          reviews |-> reviews]

\* peerReviewConsensus(content, reviewers, culturalContext), `draws` being what
\* the random draw of each review decided
peerReviewConsensus(content, reviewers, culturalContext, draws) ==
    peerReviewResult([i \in 1..Len(reviewers) |->
        simulateReview(content, reviewers[i], culturalContext, draws[i])])

----------------------------------------------------------------------------
(* AdvancedSwarmConsensus: adaptive consensus *)

\* (this.agentExpertise.get(agent) || 0) * (this.culturalWeights.get(culturalContext) || 1)
ExpertScore(agent, culturalContext) ==
    RMul(GetOr(agentExpertise, agent, Zero), GetOr(culturalWeights, culturalContext, One))

\* agents.reduce((best, current) => currentScore > bestScore ? current : best),
\* from `best` over the agents that are left
RECURSIVE ReduceBest(_, _, _)
ReduceBest(rest, best, culturalContext) ==
    IF rest = <<>> THEN best
    ELSE ReduceBest(Tail(rest),
                    IF RLess(ExpertScore(best, culturalContext),
                             ExpertScore(Head(rest), culturalContext))
                    THEN Head(rest) ELSE best,
                    culturalContext)

\* selectTopExpert(agents, culturalContext) on a non-empty list: reduce without an
\* initial value starts from the first agent
selectTopExpert(agentList, culturalContext) ==
    ReduceBest(Tail(agentList), Head(agentList), culturalContext)

RECURSIVE InsertByExpertScore(_, _)
InsertByExpertScore(x, sorted) ==
    IF sorted = <<>> THEN <<x>>
    ELSE IF RLess(Head(sorted).score, x.score)
         THEN <<x>> \o sorted
         ELSE <<Head(sorted)>> \o InsertByExpertScore(x, Tail(sorted))

\* .sort((a, b) => b.score - a.score), a stable sort
RECURSIVE SortByExpertScore(_)
SortByExpertScore(scored) ==
    IF scored = <<>> THEN <<>>
    ELSE InsertByExpertScore(scored[Len(scored)],
                             SortByExpertScore(SubSeq(scored, 1, Len(scored) - 1)))

\* selectTopExperts(agents, culturalContext, count)
selectTopExperts(agentList, culturalContext, count) ==
    LET scored == [i \in 1..Len(agentList) |->
                      [agent |-> agentList[i], score |-> ExpertScore(agentList[i], culturalContext)]]
        top == Slice(SortByExpertScore(scored), 0, count)
    IN  [i \in 1..Len(top) |-> top[i].agent]

\* the count adaptiveConsensus passes to selectTopExperts
TopExpertCount == 3

\* adaptiveConsensus(taskComplexity, agents, culturalContext); reduce of an empty
\* array without an initial value throws a TypeError
adaptiveConsensus(taskComplexity, agentList, culturalContext) ==
    CASE taskComplexity = "simple" ->
            IF Len(agentList) = 0
            THEN [outcome |-> "threw", method |-> "single_expert",
                  threshold |-> Rat(3, 5), participants |-> <<>>]
            ELSE [outcome |-> "returned", method |-> "single_expert",
                  threshold |-> Rat(3, 5),
                  participants |-> <<selectTopExpert(agentList, culturalContext)>>]
      [] taskComplexity = "moderate" ->
            [outcome |-> "returned", method |-> "expertise_weighted",
             threshold |-> Rat(7, 10),
             participants |-> selectTopExperts(agentList, culturalContext, TopExpertCount)]
      [] taskComplexity = "complex" ->
            [outcome |-> "returned", method |-> "full_swarm_consensus",
             threshold |-> Rat(4, 5), participants |-> agentList]

----------------------------------------------------------------------------
(* AdvancedSwarmConsensus: learning updates *)

\* updateAgentExpertise with the lower clamp forgotten
NewExpertiseNoFloor(agentId, performance) ==
    LET current == GetOr(agentExpertise, agentId, Rat(1, 2))
        updated == RAdd(RMul(current, Rat(4, 5)), RMul(performance, Rat(1, 5)))
    IN  RMin(One, updated)

\* updateAgentExpertise working on the default instead of the stored value
NewExpertiseFromDefault(agentId, performance) ==
    LET current == Rat(1, 2)
        updated == RAdd(RMul(current, Rat(4, 5)), RMul(performance, Rat(1, 5)))
    IN  RMax(Rat(1, 10), RMin(One, updated))

\* the value updateAgentExpertise(agentId, performance) stores
NewExpertise(agentId, performance) ==
    LET current == GetOr(agentExpertise, agentId, Rat(1, 2))
        updated == RAdd(RMul(current, Rat(4, 5)), RMul(performance, Rat(1, 5)))
    IN  RMax(Rat(1, 10), RMin(One, updated))

\* updateCulturalWeights with the upper clamp forgotten
NewCulturalWeightNoCeiling(context, effectiveness) ==
    LET current == GetOr(culturalWeights, context, One)
        updated == RAdd(RMul(current, Rat(9, 10)), RMul(effectiveness, Rat(1, 10)))
    IN  RMax(Rat(1, 2), updated)

\* the value updateCulturalWeights(context, effectiveness) stores
NewCulturalWeight(context, effectiveness) ==
    LET current == GetOr(culturalWeights, context, One)
        updated == RAdd(RMul(current, Rat(9, 10)), RMul(effectiveness, Rat(1, 10)))
    IN  RMax(Rat(1, 2), RMin(Rat(2, 1), updated))

----------------------------------------------------------------------------
(* Inputs of the engine operations *)

\* performance values, within [0, 1]
Performances == {Zero, One}

\* performance values of the expertise-learning specification
LearnPerformances == {Zero, Rat(1, 2), One}

\* effectiveness values: arbitrary numbers, negative and very large ones included
Effectivenesses == {Rat(-100, 1), Rat(3, 1), Rat(100, 1)}

\* effectiveness values of the cultural-learning specification
LearnEffectivenesses == {Rat(-100, 1), Zero, One, Rat(3, 1), Rat(100, 1)}

\* the agent the expertise-learning specification trains
LearnAgents == {"A"}

\* the context the auction and voting calls are made for
CallContexts == {"ctx"}

\* AgentBid values within their declared ranges
Bids ==
    [agentId : AgentIds,
     confidence : {Rat(1, 2), One},
     expertise : {Rat(1, 2)},
     culturalRelevance : {One},
     estimatedTime : {One},
     resourceCost : {Rat(5, 1)}]
    \cup
    [agentId : AgentIds,
     confidence : {Rat(3, 5)},
     expertise : {One},
     culturalRelevance : {Rat(1, 2)},
     estimatedTime : {Rat(10, 1)},
     resourceCost : {Rat(50, 1)}]

RECURSIVE SeqsUpTo(_, _)
SeqsUpTo(S, n) ==
    IF n = 0 THEN {<<>>}
    ELSE LET shorter == SeqsUpTo(S, n - 1)
         IN  shorter \cup {Append(s, x) : s \in {t \in shorter : Len(t) = n - 1}, x \in S}

Proposals ==
    [agentId : AgentIds, proposal : {"p1"}, confidence : {Zero, Rat(1, 2)}]
    \cup
    [agentId : AgentIds, proposal : {"p2"}, confidence : {Rat(9, 10)}]

\* the content under review: none, or an object whose JSON text has 20 characters
Contents == {[present |-> FALSE, length |-> 0], [present |-> TRUE, length |-> 20]}

Complexities == {"simple", "moderate", "complex"}

NoCall == [op |-> "none", args |-> <<>>]

\* the calls of executeSwarmTask
RunIds == 1..MaxRuns

\* an executeSwarmTask call that was not made yet
NoRun ==
    [pc |-> "idle", swarm_id |-> "", task |-> <<>>, swarm |-> <<>>, bids |-> <<>>,
     plan |-> <<>>, validator |-> "none", outcome |-> "none", result |-> <<>>]

\* the calls a client may be about to make
EngineRequests ==
    {[op |-> "auctionBasedAllocation", args |-> <<bids, culturalContext>>] :
        bids \in SeqsUpTo(Bids, MaxBids), culturalContext \in CallContexts}
    \cup
    {[op |-> "expertiseWeightedVoting", args |-> <<proposals, culturalContext>>] :
        proposals \in SeqsUpTo(Proposals, MaxProposals), culturalContext \in CallContexts}
    \cup
    {[op |-> "peerReviewConsensus", args |-> <<content, reviewers, culturalContext>>] :
        content \in Contents, reviewers \in SeqsUpTo(AgentIds, MaxReviewers),
        culturalContext \in CallContexts}
    \cup
    {[op |-> "adaptiveConsensus", args |-> <<taskComplexity, agentList, culturalContext>>] :
        taskComplexity \in Complexities, agentList \in SeqsUpTo(AgentIds, MaxListed),
        culturalContext \in CallContexts}

----------------------------------------------------------------------------
(* State after construction: new AdvancedSwarmConsensus(threshold), new SwarmManager(config) *)

Constructed ==
    /\ agentExpertise = EmptyMap
    /\ culturalWeights = EmptyMap
    /\ decisionHistory = <<>>
    /\ expertiseUpdates = 0
    /\ culturalUpdates = 0
    /\ lastCall = NoCall
    /\ lastResult = <<>>
    /\ agents = {}
    /\ tasks = EmptyMap
    /\ exec = EmptyMap
    /\ events = <<>>
    /\ culturalIntelligence = FALSE
    /\ totalTasksCompleted = 0
    /\ agentObjects = EmptyMap
    /\ agentNetworks = EmptyMap
    /\ assignmentLog = <<>>
    /\ active_swarms = EmptyMap
    /\ runs = [r \in RunIds |-> NoRun]
    /\ lastCreate = NoCall

Init ==
    /\ Constructed
    /\ pending = NoCall

\* the engine after construction, and the call its client is about to make
InitEngine ==
    /\ Constructed
    /\ pending \in EngineRequests

----------------------------------------------------------------------------
(* Engine operations as actions *)

\* updateAgentExpertise(agentId, performance)
updateAgentExpertise(agentId, performance) ==
    /\ agentExpertise' = MapSet(agentExpertise, agentId, NewExpertise(agentId, performance))
    /\ expertiseUpdates' = expertiseUpdates + 1
    /\ lastCall' = [op |-> "updateAgentExpertise", args |-> <<agentId, performance>>]
    /\ lastResult' = <<>>
    /\ UNCHANGED <<culturalWeights, decisionHistory, culturalUpdates, pending>>
    /\ UNCHANGED managerVars
    /\ UNCHANGED strategyVars
    /\ UNCHANGED orchestratorVars

\* updateCulturalWeights(context, effectiveness)
updateCulturalWeights(context, effectiveness) ==
    /\ culturalWeights' = MapSet(culturalWeights, context,
                                 NewCulturalWeight(context, effectiveness))
    /\ culturalUpdates' = culturalUpdates + 1
    /\ lastCall' = [op |-> "updateCulturalWeights", args |-> <<context, effectiveness>>]
    /\ lastResult' = <<>>
    /\ UNCHANGED <<agentExpertise, decisionHistory, expertiseUpdates, pending>>
    /\ UNCHANGED managerVars
    /\ UNCHANGED strategyVars
    /\ UNCHANGED orchestratorVars

UpdateAgentExpertise ==
    /\ expertiseUpdates + culturalUpdates < MaxUpdates
    /\ \E agentId \in AgentIds, performance \in Performances :
          updateAgentExpertise(agentId, performance)

UpdateCulturalWeights ==
    /\ expertiseUpdates + culturalUpdates < MaxUpdates
    /\ \E context \in Contexts, effectiveness \in Effectivenesses :
          updateCulturalWeights(context, effectiveness)

LearnExpertise ==
    /\ expertiseUpdates < MaxLearnUpdates
    /\ \E agentId \in LearnAgents, performance \in LearnPerformances :
          updateAgentExpertise(agentId, performance)

LearnCulturalWeights ==
    /\ culturalUpdates < MaxWeightUpdates
    /\ \E context \in Contexts, effectiveness \in LearnEffectivenesses :
          updateCulturalWeights(context, effectiveness)

\* the pending call of auctionBasedAllocation(taskId, bids, culturalContext)
AuctionBasedAllocation ==
    /\ pending.op = "auctionBasedAllocation"
    /\ lastCall' = pending
    /\ lastResult' = auctionBasedAllocation(pending.args[1], pending.args[2])
    /\ UNCHANGED <<agentExpertise, culturalWeights, decisionHistory,
                   expertiseUpdates, culturalUpdates, pending>>
    /\ UNCHANGED managerVars
    /\ UNCHANGED strategyVars
    /\ UNCHANGED orchestratorVars

\* the pending call of expertiseWeightedVoting(proposals, culturalContext)
ExpertiseWeightedVoting ==
    /\ pending.op = "expertiseWeightedVoting"
    /\ LET proposals == pending.args[1]
           decision == expertiseWeightedVoting(proposals, pending.args[2])
       IN  /\ Len(proposals) > 0 => Len(decisionHistory) < MaxHistory
           /\ lastCall' = pending
           /\ lastResult' = decision
           /\ decisionHistory' = RecordDecision(proposals, decision)
    /\ UNCHANGED <<agentExpertise, culturalWeights, expertiseUpdates, culturalUpdates,
                   pending>>
    /\ UNCHANGED managerVars
    /\ UNCHANGED strategyVars
    /\ UNCHANGED orchestratorVars

\* the pending call of peerReviewConsensus(content, reviewers, culturalContext)
PeerReviewConsensus ==
    /\ pending.op = "peerReviewConsensus"
    /\ \E draws \in [1..Len(pending.args[2]) -> BOOLEAN] :
          LET result == peerReviewConsensus(pending.args[1], pending.args[2],
                                            pending.args[3], draws)
          IN  /\ \A i \in 1..Len(result.reviews) : result.reviews[i].possible
              /\ lastResult' = result
    /\ lastCall' = pending
    /\ UNCHANGED <<agentExpertise, culturalWeights, decisionHistory,
                   expertiseUpdates, culturalUpdates, pending>>
    /\ UNCHANGED managerVars
    /\ UNCHANGED strategyVars
    /\ UNCHANGED orchestratorVars

\* the pending call of adaptiveConsensus(taskComplexity, agents, culturalContext)
AdaptiveConsensus ==
    /\ pending.op = "adaptiveConsensus"
    /\ lastCall' = pending
    /\ lastResult' = adaptiveConsensus(pending.args[1], pending.args[2], pending.args[3])
    /\ UNCHANGED <<agentExpertise, culturalWeights, decisionHistory,
                   expertiseUpdates, culturalUpdates, pending>>
    /\ UNCHANGED managerVars
    /\ UNCHANGED strategyVars
    /\ UNCHANGED orchestratorVars

\* getConsensusMetrics()
GetConsensusMetrics ==
    /\ lastCall' = [op |-> "getConsensusMetrics", args |-> <<>>]
    /\ lastResult' = getConsensusMetrics
    /\ UNCHANGED <<agentExpertise, culturalWeights, decisionHistory,
                   expertiseUpdates, culturalUpdates, pending>>
    /\ UNCHANGED managerVars
    /\ UNCHANGED strategyVars
    /\ UNCHANGED orchestratorVars

NextEngine ==
    \/ UpdateAgentExpertise
    \/ UpdateCulturalWeights
    \/ AuctionBasedAllocation
    \/ ExpertiseWeightedVoting
    \/ PeerReviewConsensus
    \/ AdaptiveConsensus
    \/ GetConsensusMetrics

SpecEngine == InitEngine /\ [][NextEngine]_vars

\* the calls of EngineRequests on at most one bid, proposal, reviewer or agent
TableRequests ==
    {r \in EngineRequests :
        Len(r.args[IF r.op \in {"peerReviewConsensus", "adaptiveConsensus"} THEN 2 ELSE 1]) <= 1}

InitTables ==
    /\ Constructed
    /\ pending \in TableRequests

TableUpdateExpertise ==
    /\ expertiseUpdates + culturalUpdates < MaxTableUpdates
    /\ \E agentId \in AgentIds, performance \in Performances :
          updateAgentExpertise(agentId, performance)

TableUpdateCulturalWeights ==
    /\ expertiseUpdates + culturalUpdates < MaxTableUpdates
    /\ \E context \in Contexts, effectiveness \in Effectivenesses :
          updateCulturalWeights(context, effectiveness)

NextTables ==
    \/ TableUpdateExpertise
    \/ TableUpdateCulturalWeights
    \/ AuctionBasedAllocation
    \/ ExpertiseWeightedVoting
    \/ PeerReviewConsensus
    \/ AdaptiveConsensus
    \/ GetConsensusMetrics

SpecTables == InitTables /\ [][NextTables]_vars

NextExpertise == LearnExpertise

SpecExpertise == Init /\ [][NextExpertise]_vars

NextCultural == LearnCulturalWeights

SpecCultural == Init /\ [][NextCultural]_vars

----------------------------------------------------------------------------
(* SwarmManager task executor: values *)

\* A result object an agent returns: its entries <<key, value>> in insertion order.
\* ResultX and ResultXReordered hold the same entries, built in a different order.
ResultX == <<<<"result", "x">>, <<"confidence", "1">>>>
ResultXReordered == <<<<"confidence", "1">>, <<"result", "x">>>>
ResultY == <<<<"result", "y">>, <<"confidence", "1">>>>

ResultObjects == {ResultX, ResultXReordered, ResultY}

\* JSON.stringify(object): the keys and values in insertion order, as a token sequence
RECURSIVE JSONstringify(_)
JSONstringify(object) ==
    IF object = <<>> THEN <<>>
    ELSE <<Head(object)[1], Head(object)[2]>> \o JSONstringify(Tail(object))

\* JSON.parse(text): the object whose entries are the token pairs, in text order
RECURSIVE JSONparse(_)
JSONparse(text) ==
    IF text = <<>> THEN <<>>
    ELSE <<<<text[1], text[2]>>>> \o JSONparse(Tail(Tail(text)))

\* resultCounts.get(key) || 0
RECURSIVE CountOf(_, _)
CountOf(entries, key) ==
    IF entries = <<>> THEN 0
    ELSE IF Head(entries)[1] = key THEN Head(entries)[2]
         ELSE CountOf(Tail(entries), key)

\* the first loop of applyConsensus: resultCounts, a Map in insertion order
RECURSIVE CountResults(_, _)
CountResults(results, resultCounts) ==
    IF results = <<>> THEN resultCounts
    ELSE LET resultStr == JSONstringify(Head(results))
             count == CountOf(resultCounts, resultStr)
         IN  CountResults(Tail(results), EntriesSet(resultCounts, resultStr, count + 1))

\* the second loop of applyConsensus: <<resultStr, maxCount>> of the most common result
RECURSIVE MostCommon(_, _)
MostCommon(entries, best) ==
    IF entries = <<>> THEN best
    ELSE IF Head(entries)[2] > best[2]
         THEN MostCommon(Tail(entries), Head(entries))
         ELSE MostCommon(Tail(entries), best)

RECURSIVE Dissenting(_, _)
Dissenting(results, consensusResult) ==
    IF results = <<>> THEN <<>>
    ELSE IF JSONstringify(Head(results)) # JSONstringify(consensusResult)
         THEN <<Head(results)>> \o Dissenting(Tail(results), consensusResult)
         ELSE Dissenting(Tail(results), consensusResult)

\* applyConsensus(results, task) for a non-empty results list
applyConsensus(results) ==
    IF Len(results) = 1
    THEN [decision |-> results[1], agreementLevel |-> One, confidence |-> One,
          dissentingOpinions |-> <<>>, culturalValidation |-> "none"]
    ELSE LET best == MostCommon(CountResults(results, <<>>), <<<<>>, 0>>)
             consensusResult == JSONparse(best[1])
             agreementLevel == Rat(best[2], Len(results))
         IN  [decision |-> consensusResult,
              agreementLevel |-> agreementLevel,
              confidence |-> agreementLevel,
              dissentingOpinions |-> Dissenting(results, consensusResult),
              culturalValidation |-> "none"]

DecimalDigits == <<"0", "1", "2", "3", "4", "5", "6", "7", "8", "9">>

\* the characters of `${n}` for a natural number n
RECURSIVE Decimal(_)
Decimal(n) ==
    IF n < 10 THEN <<DecimalDigits[n + 1]>>
    ELSE Decimal(n \div 10) \o <<DecimalDigits[(n % 10) + 1]>>

\* `${task.id}_subtask_${i}`, as the pieces the template string joins
SubtaskId(taskId, i) == <<taskId, "_subtask_">> \o Decimal(i)

\* the subtask decomposeTask makes for the capability at position i (from 1)
Subtask(taskId, task, i) ==
    [id |-> SubtaskId(taskId, i - 1),
     index |-> i - 1,
     type |-> "individual",
     priority |-> task.priority,
     requiredCapabilities |-> <<task.requiredCapabilities[i]>>,
     parentTaskId |-> taskId,
     assignedAgents |-> <<>>,
     status |-> "pending",
     deadline |-> task.deadline,
     dependencies |-> task.dependencies]

\* decomposeTask pushing its subtasks at the front of the list
decomposeTaskReversed(taskId, task) ==
    [i \in 1..Len(task.requiredCapabilities) |->
        Subtask(taskId, task, Len(task.requiredCapabilities) + 1 - i)]

\* decomposeTask(task): one subtask per required capability, none of them assigned
decomposeTask(taskId, task) ==
    [i \in 1..Len(task.requiredCapabilities) |-> Subtask(taskId, task, i)]

\* the subtasks the loop of executeDistributedTask hands to an agent
RunnableSubtasks(subtasks) ==
    SelectSeq(subtasks, LAMBDA subtask :
        /\ Len(subtask.assignedAgents) > 0
        /\ subtask.assignedAgents[1] \in agents)

NaN == <<0, 0>>

\* aggregateSubtaskResults(subtaskResults, task) when no subtask produced a result
\* (the join of no strings, and 0 / 0)
aggregateNoResults ==
    [result |-> "", subtaskResults |-> <<>>, confidence |-> NaN,
     culturalValidation |-> "none"]

----------------------------------------------------------------------------
(* SwarmManager: agent selection strategies *)

StrategyAgents == {"A", "B", "C"}

\* the order in which the agents were added: the iteration order of this.agents
RegistrationOrder == <<"A", "B", "C">>

\* what a call comes to: it returns a value or it throws
Returned(value) == [outcome |-> "returned", value |-> value]
Threw == [outcome |-> "threw", value |-> "No agents provided"]

\* the value undefined, which is no agent id
Undefined == "undefined"

\* selectRoundRobin(agents): with no agent the index is x % 0 = NaN and
\* agents[NaN] is undefined
selectRoundRobin(agentIds) ==
    IF Len(agentIds) = 0 THEN Returned(Undefined)
    ELSE Returned(agentIds[(totalTasksCompleted % Len(agentIds)) + 1])

\* the loop of selectLeastLoaded: `least` holds leastLoadedAgent and minWorkload,
\* minWorkload being Infinity when `finite` is false
RECURSIVE LeastLoadedFrom(_, _)
LeastLoadedFrom(rest, least) ==
    IF rest = <<>> THEN least.agent
    ELSE LET agentId == Head(rest)
         IN  IF /\ agentId \in agents
                /\ (~least.finite \/ agentObjects[agentId].workload < least.workload)
             THEN LeastLoadedFrom(Tail(rest),
                      [agent |-> agentId, finite |-> TRUE,
                       workload |-> agentObjects[agentId].workload])
             ELSE LeastLoadedFrom(Tail(rest), least)

\* selectLeastLoaded returning the first agent it is given
selectLeastLoadedFirst(agentIds) ==
    IF Len(agentIds) = 0 THEN Threw
    ELSE Returned(agentIds[1])

\* selectLeastLoaded(agents)
selectLeastLoaded(agentIds) ==
    IF Len(agentIds) = 0 THEN Threw
    ELSE Returned(LeastLoadedFrom(agentIds,
             IF agentIds[1] \in agents
             THEN [agent |-> agentIds[1], finite |-> TRUE,
                   workload |-> agentObjects[agentIds[1]].workload]
             ELSE [agent |-> agentIds[1], finite |-> FALSE, workload |-> 0]))

\* the number of required capabilities the agent has (one per entry of the list)
CapabilityMatches(agentId, requiredCapabilities) ==
    Len(SelectSeq(requiredCapabilities,
                  LAMBDA capability : capability \in agentObjects[agentId].availableCapabilities))

\* the loop of selectByCapability: `best` holds bestAgent and maxCapabilityScore
RECURSIVE BestByCapability(_, _, _)
BestByCapability(rest, requiredCapabilities, best) ==
    IF rest = <<>> THEN best.agent
    ELSE LET agentId == Head(rest)
         IN  IF /\ agentId \in agents
                /\ CapabilityMatches(agentId, requiredCapabilities) > best.score
             THEN BestByCapability(Tail(rest), requiredCapabilities,
                      [agent |-> agentId,
                       score |-> CapabilityMatches(agentId, requiredCapabilities)])
             ELSE BestByCapability(Tail(rest), requiredCapabilities, best)

\* selectByCapability(agents, requiredCapabilities)
selectByCapability(agentIds, requiredCapabilities) ==
    IF Len(agentIds) = 0 THEN Threw
    ELSE Returned(BestByCapability(agentIds, requiredCapabilities,
                                   [agent |-> agentIds[1], score |-> 0]))

\* the length of the window of performanceHistory.slice(-10)
HistoryWindow == 10

\* performanceHistory.slice(-10)
RecentPerformance(history) ==
    IF Len(history) <= HistoryWindow THEN history
    ELSE SubSeq(history, Len(history) - HistoryWindow + 1, Len(history))

\* avgAccuracy: the mean accuracy of the entries of a non-empty history
AverageAccuracy(history) ==
    RDiv(RSum([i \in 1..Len(history) |-> Rat(history[i].accuracy, 1)]),
         Rat(Len(history), 1))

\* avgCompletionTime: the mean completionTime of the entries of a non-empty history
AverageCompletionTime(history) ==
    RDiv(RSum([i \in 1..Len(history) |-> Rat(history[i].completionTime, 1)]),
         Rat(Len(history), 1))

\* the score, in points, selectIntelligently gives a registered agent that has a
\* network; with no required capability the first term is 0 / 0 and the score NaN
IntelligentScore(agentId, requiredCapabilities) ==
    IF Len(requiredCapabilities) = 0 THEN NaN
    ELSE LET agent == agentObjects[agentId]
             capabilityScore ==
                 RMul(Rat(CapabilityMatches(agentId, requiredCapabilities),
                          Len(requiredCapabilities)),
                      Rat(40, 1))
             recentPerformance == RecentPerformance(agent.performanceHistory)
             avgAccuracy == AverageAccuracy(recentPerformance)
             avgCompletionTime == AverageCompletionTime(recentPerformance)
             performanceScore ==
                 IF Len(recentPerformance) = 0 THEN Zero
                 ELSE RAdd(RMul(RDiv(avgAccuracy, Rat(10, 1)), Rat(20, 1)),
                           RMax(Zero, RSub(Rat(10, 1), RDiv(avgCompletionTime, Rat(1000, 1)))))
         IN  RAdd(RAdd(RAdd(capabilityScore, performanceScore),
                       RMul(agentNetworks[agentId].centrality, Rat(20, 1))),
                  RMul(Rat(agent.trustScore, 100), Rat(10, 1)))

\* the first loop of selectIntelligently: the scores Map, in insertion order
RECURSIVE CollectScores(_, _, _)
CollectScores(rest, requiredCapabilities, scores) ==
    IF rest = <<>> THEN scores
    ELSE LET agentId == Head(rest)
         IN  IF agentId \notin agents \/ agentId \notin DOMAIN agentNetworks
             THEN CollectScores(Tail(rest), requiredCapabilities, scores)
             ELSE CollectScores(Tail(rest), requiredCapabilities,
                      EntriesSet(scores, agentId,
                                 IntelligentScore(agentId, requiredCapabilities)))

\* scores.get(agentId) || 0: a missing score, 0 and NaN all give 0
ScoreOrZero(scores, agentId) ==
    LET found == SelectSeq(scores, LAMBDA entry : entry[1] = agentId)
    IN  IF found = <<>> \/ found[1][2] = NaN THEN Zero ELSE found[1][2]

\* the second loop of selectIntelligently: `best` holds bestAgent and maxScore;
\* a comparison with NaN is false
RECURSIVE BestByScore(_, _)
BestByScore(rest, best) ==
    IF rest = <<>> THEN best.agent
    ELSE IF Head(rest)[2] # NaN /\ RLess(best.score, Head(rest)[2])
         THEN BestByScore(Tail(rest), [agent |-> Head(rest)[1], score |-> Head(rest)[2]])
         ELSE BestByScore(Tail(rest), best)

\* selectIntelligently(agents, task)
selectIntelligently(agentIds, requiredCapabilities) ==
    IF Len(agentIds) = 0 THEN Threw
    ELSE LET scores == CollectScores(agentIds, requiredCapabilities, <<>>)
         IN  Returned(BestByScore(scores,
                 [agent |-> agentIds[1], score |-> ScoreOrZero(scores, agentIds[1])]))

\* findEligibleAgents(requiredCapabilities): the registered agents that have every
\* required capability, in the order they were added
findEligibleAgents(requiredCapabilities) ==
    SelectSeq(RegistrationOrder, LAMBDA agentId :
        /\ agentId \in agents
        /\ \A i \in 1..Len(requiredCapabilities) :
               requiredCapabilities[i] \in agentObjects[agentId].availableCapabilities)

LoadBalancingStrategies ==
    {"round_robin", "least_loaded", "capability_based", "intelligent", "auction_based"}

\* assignIndividualTask(task) under the configured loadBalancingStrategy:
\* what it returns, [] included, or the error of the strategy it called
assignIndividualTask(loadBalancingStrategy, requiredCapabilities) ==
    LET eligibleAgents == findEligibleAgents(requiredCapabilities)
        selected ==
            CASE loadBalancingStrategy = "round_robin" -> selectRoundRobin(eligibleAgents)
              [] loadBalancingStrategy = "least_loaded" -> selectLeastLoaded(eligibleAgents)
              [] loadBalancingStrategy = "capability_based" ->
                     selectByCapability(eligibleAgents, requiredCapabilities)
              [] loadBalancingStrategy = "intelligent" ->
                     selectIntelligently(eligibleAgents, requiredCapabilities)
              [] OTHER -> Returned(eligibleAgents[1])
    IN  IF Len(eligibleAgents) = 0 THEN Returned(<<>>)
        ELSE IF selected.outcome = "threw" THEN selected
        ELSE IF selected.value = Undefined THEN Returned(<<>>)
        ELSE Returned(<<selected.value>>)

----------------------------------------------------------------------------
(* SwarmManager task executor: task store and notifications *)

NoResult == <<>>

\* what became of one assigned agent: "returned" with its result, "threw", or "missing"
Call(agentId, outcome, result) == [agentId |-> agentId, outcome |-> outcome, result |-> result]

SetTask(t, status, result, error) ==
    tasks' = [tasks EXCEPT ![t].status = status, ![t].result = result, ![t].error = error]

Emit(name, t) == events' = Append(events, <<name, t>>)

EmitTwo(first, second, t) == events' = events \o <<<<first, t>>, <<second, t>>>>

\* the catch block of the three execute*Task methods, after which the error is rethrown
CatchAndRethrow(t, error) ==
    /\ SetTask(t, "failed", tasks[t].result, error)
    /\ exec' = [exec EXCEPT ![t].pc = "done", ![t].outcome = "threw"]

\* updateMetrics(): the completed-task counter is brought up to date
updateMetrics ==
    totalTasksCompleted' =
        Cardinality({t \in DOMAIN tasks' : tasks'[t].status = "completed"})

\* task.cultural_context && this.configuration.culturalIntelligence
WantsValidation(t) == tasks[t].culturalContext /\ culturalIntelligence

----------------------------------------------------------------------------
(* SwarmManager: registry, configuration and submission *)

\* addAgent(agent)
AddAgent ==
    \E a \in AgentIds \ agents :
        /\ agents' = agents \cup {a}
        /\ UNCHANGED <<tasks, exec, events, culturalIntelligence>>
        /\ UNCHANGED engineVars
        /\ UNCHANGED strategyVars
        /\ UNCHANGED orchestratorVars
        /\ UNCHANGED totalTasksCompleted

\* cultural intelligence switched on in the configuration, before any submission
ConfigureCulturalIntelligence ==
    /\ ~culturalIntelligence
    /\ DOMAIN tasks = {}
    /\ culturalIntelligence' = TRUE
    /\ UNCHANGED <<agents, tasks, exec, events>>
    /\ UNCHANGED engineVars
    /\ UNCHANGED strategyVars
    /\ UNCHANGED orchestratorVars
    /\ UNCHANGED totalTasksCompleted

\* a task submitted without a deadline
NoDeadline == "undefined"

\* submitTask(task): the record is created pending
SubmitTask ==
    \E t \in TaskIds \ DOMAIN tasks,
       type \in {"individual", "collaborative", "distributed"},
       assignedAgents \in SeqsUpTo(AgentIds, MaxAssigned),
       requiredCapabilities \in SeqsUpTo(Capabilities, MaxCapabilities),
       culturalContext \in BOOLEAN :
        /\ type = "individual" => Len(assignedAgents) <= 1
        /\ type # "distributed" => Len(requiredCapabilities) = 1
        /\ tasks' = MapSet(tasks, t,
              [type |-> type,
               assignedAgents |-> assignedAgents,
               requiredCapabilities |-> requiredCapabilities,
               culturalContext |-> culturalContext,
               priority |-> "medium",
               deadline |-> NoDeadline,
               dependencies |-> <<>>,
               status |-> "pending",
               result |-> NoResult,
               error |-> "none"])
        /\ exec' = MapSet(exec, t,
              [pc |-> "submitted", outcome |-> "none", index |-> 1,
               calls |-> <<>>, results |-> <<>>, value |-> NoResult,
               cancelledInFlight |-> FALSE])
        /\ UNCHANGED <<agents, events, culturalIntelligence>>
        /\ UNCHANGED engineVars
        /\ UNCHANGED strategyVars
        /\ UNCHANGED orchestratorVars
        /\ UNCHANGED totalTasksCompleted


----------------------------------------------------------------------------
(* SwarmManager: executeIndividualTask *)

\* the call up to its first await: the two checks, the start, the agent call
ExecuteIndividualTask(t) ==
    /\ exec[t].pc = "submitted"
    /\ tasks[t].type = "individual"
    /\ IF Len(tasks[t].assignedAgents) = 0 \/ tasks[t].assignedAgents[1] \notin agents
       THEN \* throw new Error(...) before the try block
            /\ exec' = [exec EXCEPT ![t].pc = "done", ![t].outcome = "threw"]
            /\ UNCHANGED <<tasks, events>>
       ELSE /\ SetTask(t, "in_progress", tasks[t].result, tasks[t].error)
            /\ Emit("task:started", t)
            /\ exec' = [exec EXCEPT ![t].pc = "await_agent"]
    /\ UNCHANGED <<agents, culturalIntelligence>>
    /\ UNCHANGED engineVars
    /\ UNCHANGED strategyVars
    /\ UNCHANGED orchestratorVars
    /\ UNCHANGED totalTasksCompleted

\* agent.executeTask(...) resolves: the result is recorded
IndividualAgentReturns(t) ==
    /\ exec[t].pc = "await_agent"
    /\ tasks[t].type = "individual"
    /\ \E result \in ResultObjects :
          /\ SetTask(t, "completed", <<result>>, tasks[t].error)
          /\ exec' = [exec EXCEPT ![t].pc = IF WantsValidation(t) THEN "await_validation"
                                             ELSE "emit_completed",
                                  ![t].calls = Append(@, Call(tasks[t].assignedAgents[1], "returned", result))]
    /\ UNCHANGED <<agents, events, culturalIntelligence>>
    /\ UNCHANGED engineVars
    /\ UNCHANGED strategyVars
    /\ UNCHANGED orchestratorVars
    /\ UNCHANGED totalTasksCompleted

\* agent.executeTask(...) rejects: the catch block runs
IndividualAgentThrows(t) ==
    /\ exec[t].pc = "await_agent"
    /\ tasks[t].type = "individual"
    /\ SetTask(t, "failed", tasks[t].result, "agent_error")
    /\ exec' = [exec EXCEPT ![t].pc = "done", ![t].outcome = "threw",
                            ![t].calls = Append(@, Call(tasks[t].assignedAgents[1], "threw", NoResult))]
    /\ Emit("task:failed", t)
    /\ UNCHANGED <<agents, culturalIntelligence>>
    /\ UNCHANGED engineVars
    /\ UNCHANGED strategyVars
    /\ UNCHANGED orchestratorVars
    /\ updateMetrics

\* validateCulturalDecision: the validator's answer, or the record made of its error
Validations == {"validated", "error"}

\* await validateCulturalDecision(...) resumes in executeIndividualTask:
\* result.culturalValidation = validation, on the object that is also task.result
IndividualValidated(t) ==
    /\ exec[t].pc = "await_validation"
    /\ tasks[t].type = "individual"
    /\ \E validation \in Validations :
          SetTask(t, tasks[t].status,
                  <<Append(tasks[t].result[1], <<"culturalValidation", validation>>)>>,
                  tasks[t].error)
    /\ exec' = [exec EXCEPT ![t].pc = "emit_completed"]
    /\ UNCHANGED <<agents, events, culturalIntelligence>>
    /\ UNCHANGED engineVars
    /\ UNCHANGED strategyVars
    /\ UNCHANGED orchestratorVars
    /\ UNCHANGED totalTasksCompleted

----------------------------------------------------------------------------
(* SwarmManager: the end of the try block, shared by the three modes *)

\* emit('task:completed'), updateMetrics(), return: every listener returns
CompletionNotified(t) ==
    /\ exec[t].pc = "emit_completed"
    /\ Emit("task:completed", t)
    /\ exec' = [exec EXCEPT ![t].pc = "done", ![t].outcome = "returned"]
    /\ UNCHANGED <<agents, tasks, culturalIntelligence>>
    /\ UNCHANGED engineVars
    /\ UNCHANGED strategyVars
    /\ UNCHANGED orchestratorVars
    /\ updateMetrics

\* emit('task:completed') with a listener that throws: the catch block runs
CompletionListenerThrows(t) ==
    /\ exec[t].pc = "emit_completed"
    /\ CatchAndRethrow(t, "listener_error")
    /\ EmitTwo("task:completed", "task:failed", t)
    /\ UNCHANGED <<agents, culturalIntelligence>>
    /\ UNCHANGED engineVars
    /\ UNCHANGED strategyVars
    /\ UNCHANGED orchestratorVars
    /\ updateMetrics

----------------------------------------------------------------------------
(* SwarmManager: executeCollaborativeTask *)

ExecuteCollaborativeTask(t) ==
    /\ exec[t].pc = "submitted"
    /\ tasks[t].type = "collaborative"
    /\ IF Len(tasks[t].assignedAgents) = 0
       THEN /\ exec' = [exec EXCEPT ![t].pc = "done", ![t].outcome = "threw"]
            /\ UNCHANGED <<tasks, events>>
       ELSE /\ SetTask(t, "in_progress", tasks[t].result, tasks[t].error)
            /\ Emit("task:started", t)
            /\ exec' = [exec EXCEPT ![t].pc = "agents"]
    /\ UNCHANGED <<agents, culturalIntelligence>>
    /\ UNCHANGED engineVars
    /\ UNCHANGED strategyVars
    /\ UNCHANGED orchestratorVars
    /\ UNCHANGED totalTasksCompleted

\* one turn of the loop over task.assignedAgents with an agent that is not registered
CollaborativeAgentMissing(t) ==
    /\ exec[t].pc = "agents"
    /\ exec[t].index <= Len(tasks[t].assignedAgents)
    /\ tasks[t].assignedAgents[exec[t].index] \notin agents
    /\ exec' = [exec EXCEPT ![t].index = @ + 1,
                            ![t].calls = Append(@,
                                 Call(tasks[t].assignedAgents[exec[t].index],
                                      "missing", NoResult))]
    /\ UNCHANGED <<agents, tasks, events, culturalIntelligence>>
    /\ UNCHANGED engineVars
    /\ UNCHANGED strategyVars
    /\ UNCHANGED orchestratorVars
    /\ UNCHANGED totalTasksCompleted

\* one turn of the loop: the agent returns and its result is pushed
CollaborativeAgentReturns(t) ==
    /\ exec[t].pc = "agents"
    /\ exec[t].index <= Len(tasks[t].assignedAgents)
    /\ tasks[t].assignedAgents[exec[t].index] \in agents
    /\ \E result \in ResultObjects :
          exec' = [exec EXCEPT ![t].index = @ + 1,
                               ![t].results = Append(@, result),
                               ![t].calls = Append(@,
                                    Call(tasks[t].assignedAgents[exec[t].index],
                                         "returned", result))]
    /\ UNCHANGED <<agents, tasks, events, culturalIntelligence>>
    /\ UNCHANGED engineVars
    /\ UNCHANGED strategyVars
    /\ UNCHANGED orchestratorVars
    /\ UNCHANGED totalTasksCompleted

\* one turn of the loop: the agent throws, the error is logged and the loop goes on
CollaborativeAgentThrows(t) ==
    /\ exec[t].pc = "agents"
    /\ exec[t].index <= Len(tasks[t].assignedAgents)
    /\ tasks[t].assignedAgents[exec[t].index] \in agents
    /\ exec' = [exec EXCEPT ![t].index = @ + 1,
                            ![t].calls = Append(@,
                                 Call(tasks[t].assignedAgents[exec[t].index],
                                      "threw", NoResult))]
    /\ UNCHANGED <<agents, tasks, events, culturalIntelligence>>
    /\ UNCHANGED engineVars
    /\ UNCHANGED strategyVars
    /\ UNCHANGED orchestratorVars
    /\ UNCHANGED totalTasksCompleted

\* after the loop: applyConsensus, then validation or the recording of the result
CollaborativeConsensus(t) ==
    /\ exec[t].pc = "agents"
    /\ exec[t].index > Len(tasks[t].assignedAgents)
    /\ IF Len(exec[t].results) = 0
       THEN \* applyConsensus throws 'No results to apply consensus to'
            /\ CatchAndRethrow(t, "no_results")
            /\ Emit("task:failed", t)
            /\ updateMetrics
       ELSE IF WantsValidation(t)
            THEN /\ exec' = [exec EXCEPT ![t].pc = "await_validation",
                                         ![t].value = <<applyConsensus(exec[t].results)>>]
                 /\ UNCHANGED <<tasks, events, totalTasksCompleted>>
            ELSE /\ SetTask(t, "completed", <<applyConsensus(exec[t].results)>>,
                            tasks[t].error)
                 /\ exec' = [exec EXCEPT ![t].pc = "emit_completed"]
                 /\ UNCHANGED <<events, totalTasksCompleted>>
    /\ UNCHANGED <<agents, culturalIntelligence>>
    /\ UNCHANGED engineVars
    /\ UNCHANGED strategyVars
    /\ UNCHANGED orchestratorVars

\* await validateCulturalDecision(...) resumes in executeCollaborativeTask or
\* executeDistributedTask: the validation is attached and the result recorded
ResultValidated(t) ==
    /\ exec[t].pc = "await_validation"
    /\ tasks[t].type # "individual"
    /\ \E validation \in Validations :
          SetTask(t, "completed",
                  <<[exec[t].value[1] EXCEPT !.culturalValidation = validation]>>,
                  tasks[t].error)
    /\ exec' = [exec EXCEPT ![t].pc = "emit_completed"]
    /\ UNCHANGED <<agents, events, culturalIntelligence>>
    /\ UNCHANGED engineVars
    /\ UNCHANGED strategyVars
    /\ UNCHANGED orchestratorVars
    /\ UNCHANGED totalTasksCompleted

----------------------------------------------------------------------------
(* SwarmManager: executeDistributedTask *)

ExecuteDistributedTask(t) ==
    /\ exec[t].pc = "submitted"
    /\ tasks[t].type = "distributed"
    /\ IF Len(tasks[t].assignedAgents) = 0
       THEN /\ exec' = [exec EXCEPT ![t].pc = "done", ![t].outcome = "threw"]
            /\ UNCHANGED <<tasks, events>>
       ELSE /\ SetTask(t, "in_progress", tasks[t].result, tasks[t].error)
            /\ Emit("task:started", t)
            /\ exec' = [exec EXCEPT ![t].pc = "await_decompose"]
    /\ UNCHANGED <<agents, culturalIntelligence>>
    /\ UNCHANGED engineVars
    /\ UNCHANGED strategyVars
    /\ UNCHANGED orchestratorVars
    /\ UNCHANGED totalTasksCompleted

\* await decomposeTask(task) resumes: the loop skips every subtask that has no
\* assigned agent, the results are aggregated, then validation or the recording
DistributedAggregate(t) ==
    /\ exec[t].pc = "await_decompose"
    /\ RunnableSubtasks(decomposeTask(t, tasks[t])) = <<>>
    /\ IF WantsValidation(t)
       THEN /\ exec' = [exec EXCEPT ![t].pc = "await_validation",
                                    ![t].value = <<aggregateNoResults>>]
            /\ UNCHANGED tasks
       ELSE /\ SetTask(t, "completed", <<aggregateNoResults>>, tasks[t].error)
            /\ exec' = [exec EXCEPT ![t].pc = "emit_completed"]
    /\ UNCHANGED <<agents, events, culturalIntelligence>>
    /\ UNCHANGED engineVars
    /\ UNCHANGED strategyVars
    /\ UNCHANGED orchestratorVars
    /\ UNCHANGED totalTasksCompleted

----------------------------------------------------------------------------
(* The task executor *)

IndividualStep ==
    \E t \in DOMAIN tasks :
        \/ ExecuteIndividualTask(t)
        \/ IndividualAgentReturns(t)
        \/ IndividualAgentThrows(t)
        \/ IndividualValidated(t)

CollaborativeStep ==
    \E t \in DOMAIN tasks :
        \/ ExecuteCollaborativeTask(t)
        \/ CollaborativeAgentMissing(t)
        \/ CollaborativeAgentReturns(t)
        \/ CollaborativeAgentThrows(t)
        \/ CollaborativeConsensus(t)

DistributedStep ==
    \E t \in DOMAIN tasks :
        \/ ExecuteDistributedTask(t)
        \/ DistributedAggregate(t)

CompletionStep ==
    \E t \in DOMAIN tasks :
        \/ ResultValidated(t)
        \/ CompletionNotified(t)
        \/ CompletionListenerThrows(t)

Next ==
    \/ AddAgent
    \/ ConfigureCulturalIntelligence
    \/ SubmitTask
    \/ IndividualStep
    \/ CollaborativeStep
    \/ DistributedStep
    \/ CompletionStep

Spec == Init /\ [][Next]_vars

\* cancelTask(taskId): the task is marked failed from outside its executor
CancelTask ==
    \E t \in DOMAIN tasks :
        /\ tasks[t].status \in {"pending", "in_progress"}
        /\ SetTask(t, "failed", tasks[t].result, "cancelled")
        /\ exec' = [exec EXCEPT ![t].cancelledInFlight = (exec[t].pc = "await_agent")]
        /\ UNCHANGED <<agents, events, culturalIntelligence>>
        /\ UNCHANGED engineVars
        /\ UNCHANGED strategyVars
        /\ UNCHANGED orchestratorVars
        /\ UNCHANGED totalTasksCompleted

NextCancel == Next \/ CancelTask

SpecCancel == Init /\ [][NextCancel]_vars

----------------------------------------------------------------------------
(* SwarmManager: the selection strategies as actions *)

\* one performance record of an agent
Performance(accuracy, completionTime) ==
    [accuracy |-> accuracy, completionTime |-> completionTime]

\* eleven records: one old poor one, then ten accurate and slow ones
LongHistory ==
    <<Performance(0, 0)>> \o [i \in 1..10 |-> Performance(10, 20000)]

\* the agents a swarm may hold: a BaseAgent with the centrality of its network
AgentSetups ==
    {[agent |-> [workload |-> 3, availableCapabilities |-> {"a"},
                 performanceHistory |-> <<>>, trustScore |-> 0],
      centrality |-> One],
     [agent |-> [workload |-> 1, availableCapabilities |-> {"a"},
                 performanceHistory |-> <<Performance(0, 2000)>>, trustScore |-> 0],
      centrality |-> Zero],
     [agent |-> [workload |-> 5, availableCapabilities |-> {"a", "b"},
                 performanceHistory |-> LongHistory, trustScore |-> 100],
      centrality |-> Zero],
     [agent |-> [workload |-> 1, availableCapabilities |-> {},
                 performanceHistory |-> <<>>, trustScore |-> 0],
      centrality |-> Zero]}

\* the lists of agents handed to a strategy: the agents of the swarm, some or all
\* of them, in any order
EligibleLists ==
    {list \in SeqsUpTo(StrategyAgents, Cardinality(StrategyAgents)) :
        \A i, j \in 1..Len(list) : list[i] = list[j] => i = j}

\* task.requiredCapabilities
RequiredLists == {<<>>, <<"a">>, <<"b">>, <<"a", "b">>}

RoundRobinRequests ==
    {[op |-> "selectRoundRobin", args |-> <<agentIds>>] : agentIds \in EligibleLists}

StrategyRequests ==
    RoundRobinRequests
    \cup
    {[op |-> "selectLeastLoaded", args |-> <<agentIds>>] : agentIds \in EligibleLists}
    \cup
    {[op |-> "selectByCapability", args |-> <<agentIds, requiredCapabilities>>] :
        agentIds \in EligibleLists, requiredCapabilities \in RequiredLists}
    \cup
    {[op |-> "selectIntelligently", args |-> <<agentIds, requiredCapabilities>>] :
        agentIds \in EligibleLists, requiredCapabilities \in RequiredLists}
    \cup
    {[op |-> "assignIndividualTask", args |-> <<loadBalancingStrategy, requiredCapabilities>>] :
        loadBalancingStrategy \in LoadBalancingStrategies,
        requiredCapabilities \in RequiredLists}

\* a manager to which agents were added and which has completed some tasks, and
\* the call that is about to be made on it
InitStrategy ==
    /\ agentExpertise = EmptyMap
    /\ culturalWeights = EmptyMap
    /\ decisionHistory = <<>>
    /\ expertiseUpdates = 0
    /\ culturalUpdates = 0
    /\ lastCall = NoCall
    /\ lastResult = <<>>
    /\ tasks = EmptyMap
    /\ exec = EmptyMap
    /\ events = <<>>
    /\ culturalIntelligence = FALSE
    /\ assignmentLog = <<>>
    /\ active_swarms = EmptyMap
    /\ runs = [r \in RunIds |-> NoRun]
    /\ lastCreate = NoCall
    /\ agents \in SUBSET StrategyAgents
    /\ \E setup \in [StrategyAgents -> AgentSetups] :
          /\ agentObjects = [a \in StrategyAgents |-> setup[a].agent]
          /\ agentNetworks = [a \in agents |-> [centrality |-> setup[a].centrality]]
    /\ totalTasksCompleted \in 0..(Cardinality(StrategyAgents) - 1)
    /\ pending \in StrategyRequests

\* a manager without agents, and the selectRoundRobin call that is about to be made
InitRoundRobin ==
    /\ Constructed
    /\ pending \in RoundRobinRequests

\* the call `pending` is made and comes to `result`
StrategyCall(result) ==
    /\ lastCall' = pending
    /\ lastResult' = result
    /\ UNCHANGED <<agentExpertise, culturalWeights, decisionHistory,
                   expertiseUpdates, culturalUpdates, pending>>
    /\ UNCHANGED managerVars
    /\ UNCHANGED <<agentObjects, agentNetworks>>
    /\ UNCHANGED orchestratorVars

\* one more call of selectRoundRobin(agents)
SelectRoundRobin ==
    /\ pending.op = "selectRoundRobin"
    /\ Len(assignmentLog) < MaxAssignments
    /\ StrategyCall(selectRoundRobin(pending.args[1]))
    /\ assignmentLog' = Append(assignmentLog,
           [completed |-> totalTasksCompleted,
            selected |-> selectRoundRobin(pending.args[1]).value])

SelectLeastLoaded ==
    /\ pending.op = "selectLeastLoaded"
    /\ StrategyCall(selectLeastLoaded(pending.args[1]))
    /\ UNCHANGED assignmentLog

SelectByCapability ==
    /\ pending.op = "selectByCapability"
    /\ StrategyCall(selectByCapability(pending.args[1], pending.args[2]))
    /\ UNCHANGED assignmentLog

SelectIntelligently ==
    /\ pending.op = "selectIntelligently"
    /\ StrategyCall(selectIntelligently(pending.args[1], pending.args[2]))
    /\ UNCHANGED assignmentLog

AssignIndividualTask ==
    /\ pending.op = "assignIndividualTask"
    /\ StrategyCall(assignIndividualTask(pending.args[1], pending.args[2]))
    /\ UNCHANGED assignmentLog

\* a task reaches `completed` and updateMetrics counts it
TaskCompleted ==
    /\ totalTasksCompleted < MaxCompleted
    /\ totalTasksCompleted' = totalTasksCompleted + 1
    /\ UNCHANGED <<agents, tasks, exec, events, culturalIntelligence>>
    /\ UNCHANGED engineVars
    /\ UNCHANGED strategyVars
    /\ UNCHANGED orchestratorVars

NextStrategy ==
    \/ SelectRoundRobin
    \/ SelectLeastLoaded
    \/ SelectByCapability
    \/ SelectIntelligently
    \/ AssignIndividualTask

SpecStrategy == InitStrategy /\ [][NextStrategy]_vars

NextRoundRobin ==
    \/ SelectRoundRobin
    \/ TaskCompleted

SpecRoundRobin == InitRoundRobin /\ [][NextRoundRobin]_vars

----------------------------------------------------------------------------
(* SwarmManager: decomposeTask as an action *)

\* the tasks handed to decomposeTask
DecomposedTasks ==
    [requiredCapabilities : SeqsUpTo(Capabilities, MaxCapabilities),
     priority : {"low", "medium", "high"},
     deadline : {NoDeadline, "tomorrow"},
     dependencies : {<<>>, <<"t0">>}]

DecomposeRequests ==
    {[op |-> "decomposeTask", args |-> <<taskId, task>>] :
        taskId \in TaskIds, task \in DecomposedTasks}

InitDecompose ==
    /\ Constructed
    /\ pending \in DecomposeRequests

DecomposeTask ==
    /\ pending.op = "decomposeTask"
    /\ lastCall' = pending
    /\ lastResult' = decomposeTask(pending.args[1], pending.args[2])
    /\ UNCHANGED <<agentExpertise, culturalWeights, decisionHistory,
                   expertiseUpdates, culturalUpdates, pending>>
    /\ UNCHANGED managerVars
    /\ UNCHANGED strategyVars
    /\ UNCHANGED orchestratorVars

NextDecompose == DecomposeTask

SpecDecompose == InitDecompose /\ [][NextDecompose]_vars

----------------------------------------------------------------------------
(* Orchestrator SwarmManager (swarm-orchestrator/SwarmManager.ts) *)

\* an optional cultural_context that was not given
NoContext == "undefined"

\* swarm.cultural_context || 'default'
ContextOrDefault(cultural_context) ==
    IF cultural_context = NoContext THEN "default" ELSE cultural_context

\* config.swarm_id: missing or empty (""), or an id
ConfiguredSwarmIds == {"", "s1"}

\* the swarm ids executeSwarmTask is called with: a created one, and one never created
CalledSwarmIds == {"s1", "s9"}

CoordinationPatterns == {"auction_based", "consensus_driven", "centralized"}

\* config.agents, by the id of each AgentConfiguration
ConfiguredAgents == {<<>>, <<"A">>, <<"A", "B">>}

SwarmConfigurations ==
    [swarm_id : ConfiguredSwarmIds,
     agents : ConfiguredAgents,
     coordination_pattern : CoordinationPatterns,
     cultural_context : {NoContext, "ctx"}]

\* task.payload: none, or an object whose JSON text has that many characters
Payloads ==
    {[present |-> FALSE, length |-> 0], [present |-> TRUE, length |-> 20],
     [present |-> TRUE, length |-> 500], [present |-> TRUE, length |-> 2000]}

SwarmTasks ==
    [id : TaskIds, payload : Payloads, cultural_context : {NoContext, "ctx"}]

\* what Math.random() gives collectAgentBids for one agent: a weak and a strong bid
BidDraws ==
    {[confidence |-> Rat(1, 10), expertise |-> Rat(1, 10),
      culturalRelevance |-> Rat(1, 10), estimatedTime |-> Rat(100, 1),
      resourceCost |-> Rat(50, 1)],
     [confidence |-> Rat(9, 10), expertise |-> Rat(9, 10),
      culturalRelevance |-> Rat(9, 10), estimatedTime |-> Rat(10, 1),
      resourceCost |-> Rat(5, 1)]}

\* what Math.random() gives executeWithWeightedConsensus as a confidence
ConfidenceDraws == {Zero, Rat(1, 2)}

\* validateSwarmConfiguration accepting every configuration
ConfigurationNeverInvalid(config) == FALSE

\* validateSwarmConfiguration(config) throws
ConfigurationInvalid(config) == config.swarm_id = ""

\* initializeAgents(agents): { id: `agent_${Math.random()}`, ...agent }, the id of
\* the configuration overriding the generated one
initializeAgents(configured) == configured

\* the ActiveSwarm createSwarm registers
ActiveSwarm(config) ==
    [id |-> config.swarm_id,
     config |-> config,
     agents |-> initializeAgents(config.agents),
     cultural_context |-> config.cultural_context,
     coordination_pattern |-> config.coordination_pattern]

\* createSwarm(config)
CreateSwarm ==
    \E config \in SwarmConfigurations :
        /\ IF ConfigurationInvalid(config)
           THEN /\ lastCreate' = [op |-> "createSwarm", args |-> <<config.swarm_id>>,
                                  outcome |-> "threw"]
                /\ UNCHANGED active_swarms
           ELSE /\ lastCreate' = [op |-> "createSwarm", args |-> <<config.swarm_id>>,
                                  outcome |-> "returned"]
                /\ active_swarms' = MapSet(active_swarms, config.swarm_id,
                                            ActiveSwarm(config))
        /\ UNCHANGED runs
        /\ UNCHANGED engineVars
        /\ UNCHANGED managerVars
        /\ UNCHANGED strategyVars

\* collectAgentBids(swarm, task) when Math.random() gives draws[i] for agent i
collectAgentBids(swarm, draws) ==
    [i \in 1..Len(swarm.agents) |->
        [agentId |-> swarm.agents[i],
         confidence |-> draws[i].confidence,
         expertise |-> draws[i].expertise,
         culturalRelevance |-> draws[i].culturalRelevance,
         estimatedTime |-> draws[i].estimatedTime,
         resourceCost |-> draws[i].resourceCost]]

\* assessTaskComplexity(task): JSON.stringify(task.payload).length, which throws
\* for a task without payload
assessTaskComplexity(task) ==
    IF ~task.payload.present THEN "threw"
    ELSE IF task.payload.length < 100 THEN "simple"
    ELSE IF task.payload.length < 1000 THEN "moderate"
    ELSE "complex"

\* cultural_service.adaptTask(task, swarm.cultural_context), when the swarm has a context
AdaptedTask(swarm, task) ==
    IF swarm.cultural_context # NoContext
    THEN [task EXCEPT !.cultural_context = swarm.cultural_context]
    ELSE task

\* a run that ended: what executeSwarmTask returned, or that it threw; its locals
\* are gone
Finished(run, outcome, result) ==
    [NoRun EXCEPT !.pc = "done", !.swarm_id = run.swarm_id, !.validator = run.validator,
                  !.outcome = outcome, !.result = result]

\* the SwarmResult of task_distributor.execute(swarm, task)
DistributedResult(task) ==
    [taskId |-> task.id, agentId |-> "default-agent", status |-> "completed",
     consensusInfo |-> "default-agent", culturalValidation |-> "none"]

\* executeSwarmTask(swarm_id, task) up to its first suspension that matters: the
\* lookup, the adaptation of the task and the call of the coordination pattern
ExecuteSwarmTask(r) ==
    /\ runs[r].pc = "idle"
    /\ \E swarm_id \in CalledSwarmIds, given \in SwarmTasks :
          LET started == [runs[r] EXCEPT !.swarm_id = swarm_id, !.task = given]
          IN  IF swarm_id \notin DOMAIN active_swarms
              THEN /\ runs' = [runs EXCEPT ![r] = Finished(started, "threw", "not found")]
                   /\ UNCHANGED <<lastCall, lastResult>>
              ELSE LET swarm == active_swarms[swarm_id]
                       task == AdaptedTask(swarm, given)
                       adapted == [started EXCEPT !.task = task, !.swarm = swarm]
                       culturalContext == ContextOrDefault(swarm.config.cultural_context)
                       agentList == swarm.agents
                   IN  CASE swarm.coordination_pattern = "auction_based" ->
                              /\ \E draws \in [1..Len(swarm.agents) -> BidDraws] :
                                    runs' = [runs EXCEPT ![r] =
                                        [adapted EXCEPT !.pc = "await_bids",
                                                        !.bids = collectAgentBids(swarm, draws)]]
                              /\ UNCHANGED <<lastCall, lastResult>>
                         [] swarm.coordination_pattern = "consensus_driven" ->
                              IF assessTaskComplexity(task) = "threw"
                              THEN /\ runs' = [runs EXCEPT ![r] =
                                          Finished(adapted, "threw", "TypeError")]
                                   /\ UNCHANGED <<lastCall, lastResult>>
                              ELSE LET plan == adaptiveConsensus(assessTaskComplexity(task),
                                                                 agentList, culturalContext)
                                   IN  /\ lastCall' = [op |-> "adaptiveConsensus",
                                                       args |-> <<assessTaskComplexity(task),
                                                                  agentList, culturalContext>>]
                                       /\ lastResult' = plan
                                       /\ runs' = [runs EXCEPT ![r] =
                                              IF plan.outcome = "threw"
                                              THEN Finished(adapted, "threw", "TypeError")
                                              ELSE [adapted EXCEPT !.pc = "await_plan",
                                                                   !.plan = plan]]
                         [] OTHER ->
                              /\ runs' = [runs EXCEPT ![r] =
                                     Finished(adapted, "returned", DistributedResult(task))]
                              /\ UNCHANGED <<lastCall, lastResult>>
    /\ UNCHANGED <<agentExpertise, culturalWeights, decisionHistory,
                   expertiseUpdates, culturalUpdates, pending>>
    /\ UNCHANGED <<active_swarms, lastCreate>>
    /\ UNCHANGED managerVars
    /\ UNCHANGED strategyVars

\* executeAuctionBasedTask: await collectAgentBids resumes and
\* auctionBasedAllocation(task.id, bids, swarm.cultural_context || 'default') runs
AuctionAllocated(r) ==
    /\ runs[r].pc = "await_bids"
    /\ LET culturalContext == ContextOrDefault(runs[r].swarm.cultural_context)
           consensusResult == auctionBasedAllocation(runs[r].bids, culturalContext)
       IN  /\ lastCall' = [op |-> "auctionBasedAllocation",
                           args |-> <<runs[r].bids, culturalContext>>]
           /\ lastResult' = consensusResult
           /\ runs' = [runs EXCEPT ![r].pc = "await_auction",
                                   ![r].plan = consensusResult]
    /\ UNCHANGED <<agentExpertise, culturalWeights, decisionHistory,
                   expertiseUpdates, culturalUpdates, pending>>
    /\ UNCHANGED <<active_swarms, lastCreate>>
    /\ UNCHANGED managerVars
    /\ UNCHANGED strategyVars

\* the SwarmResult executeTaskWithAgent(agentId, task, consensusResult) builds
TaskResult(agentId, task, consensusResult) ==
    [taskId |-> task.id, agentId |-> agentId, status |-> "completed",
     consensusInfo |-> consensusResult, culturalValidation |-> "none"]

\* executeAuctionBasedTask: await auctionBasedAllocation resumes,
\* updateAgentExpertise(selectedAgent, consensusScore) is called and
\* executeTaskWithAgent runs up to the call of the validator, if it makes one
AuctionFedBack(r) ==
    /\ runs[r].pc = "await_auction"
    /\ LET selectedAgent == runs[r].plan.selectedAgent
           performance == runs[r].plan.consensusScore
           result == TaskResult(selectedAgent, runs[r].task, runs[r].plan)
       IN  /\ agentExpertise' = MapSet(agentExpertise, selectedAgent,
                                       NewExpertise(selectedAgent, performance))
           /\ expertiseUpdates' = expertiseUpdates + 1
           /\ lastCall' = [op |-> "updateAgentExpertise",
                           args |-> <<selectedAgent, performance>>]
           /\ lastResult' = <<>>
           /\ runs' = [runs EXCEPT ![r] =
                  IF runs[r].task.cultural_context # NoContext
                  THEN [runs[r] EXCEPT !.pc = "await_validation", !.result = result]
                  ELSE Finished(runs[r], "returned", result)]
    /\ UNCHANGED <<culturalWeights, decisionHistory, culturalUpdates, pending>>
    /\ UNCHANGED <<active_swarms, lastCreate>>
    /\ UNCHANGED managerVars
    /\ UNCHANGED strategyVars

\* what cultural_validator.validateCulturalIntelligence does: it returns its
\* record or it throws
ValidatorOutcomes == {"returned", "threw"}

\* validateCulturalDecision passing the validator's usual record off when it threw
validateCulturalDecisionUndegraded(validator) ==
    [passed |-> TRUE, confidence |-> Rat(9, 10), riskLevel |-> "safe"]

\* validateCulturalDecision(decision, culturalContext) for a context that is
\* given: the validator's record, or the record of the catch block
validateCulturalDecision(validator) ==
    IF validator = "returned"
    THEN [passed |-> TRUE, confidence |-> Rat(9, 10), riskLevel |-> "safe"]
    ELSE [passed |-> TRUE, confidence |-> Rat(1, 2), riskLevel |-> "caution"]

\* executeTaskWithAgent: await validateCulturalDecision resumes
TaskValidated(r) ==
    /\ runs[r].pc = "await_validation"
    /\ \E validator \in ValidatorOutcomes :
          runs' = [runs EXCEPT ![r] =
              Finished([runs[r] EXCEPT !.validator = validator], "returned",
                       [runs[r].result EXCEPT
                           !.culturalValidation = validateCulturalDecision(validator)])]
    /\ UNCHANGED engineVars
    /\ UNCHANGED <<active_swarms, lastCreate>>
    /\ UNCHANGED managerVars
    /\ UNCHANGED strategyVars

\* executeWithSingleExpert(consensusPlan.participants[0] || 'default_agent', task)
executeWithSingleExpert(participants, task) ==
    [taskId |-> task.id,
     agentId |-> IF Len(participants) = 0 THEN "default_agent" ELSE participants[1],
     status |-> "completed",
     consensusInfo |-> Undefined,
     culturalValidation |-> "none"]

\* executeConsensusDrivenTask: await adaptiveConsensus resumes on a single_expert plan
SingleExpertExecuted(r) ==
    /\ runs[r].pc = "await_plan"
    /\ runs[r].plan.method = "single_expert"
    /\ runs' = [runs EXCEPT ![r] =
           Finished(runs[r], "returned",
                    executeWithSingleExpert(runs[r].plan.participants, runs[r].task))]
    /\ UNCHANGED engineVars
    /\ UNCHANGED <<active_swarms, lastCreate>>
    /\ UNCHANGED managerVars
    /\ UNCHANGED strategyVars

\* executeConsensusDrivenTask: await adaptiveConsensus resumes on an
\* expertise_weighted plan, executeWithWeightedConsensus votes on simulated proposals
WeightedConsensusExecuted(r) ==
    /\ runs[r].pc = "await_plan"
    /\ runs[r].plan.method = "expertise_weighted"
    /\ \E confidences \in [1..Len(runs[r].plan.participants) -> ConfidenceDraws] :
          LET participants == runs[r].plan.participants
              culturalContext == ContextOrDefault(runs[r].swarm.config.cultural_context)
              proposals == [i \in 1..Len(participants) |->
                               [agentId |-> participants[i],
                                proposal |-> participants[i],
                                confidence |-> confidences[i]]]
              decision == expertiseWeightedVoting(proposals, culturalContext)
          IN  /\ lastCall' = [op |-> "expertiseWeightedVoting",
                              args |-> <<proposals, culturalContext>>]
              /\ lastResult' = decision
              /\ decisionHistory' = RecordDecision(proposals, decision)
              /\ runs' = [runs EXCEPT ![r] =
                     Finished(runs[r], "returned",
                         [taskId |-> runs[r].task.id,
                          agentId |-> IF Len(decision.participatingAgents) = 0
                                      THEN Undefined
                                      ELSE decision.participatingAgents[1],
                          status |-> "completed",
                          consensusInfo |-> decision,
                          culturalValidation |-> "none"])]
    /\ UNCHANGED <<agentExpertise, culturalWeights, expertiseUpdates, culturalUpdates,
                   pending>>
    /\ UNCHANGED <<active_swarms, lastCreate>>
    /\ UNCHANGED managerVars
    /\ UNCHANGED strategyVars

\* executeConsensusDrivenTask: await adaptiveConsensus resumes on a
\* full_swarm_consensus plan, executeWithFullConsensus has the payload reviewed
FullConsensusExecuted(r) ==
    /\ runs[r].pc = "await_plan"
    /\ runs[r].plan.method = "full_swarm_consensus"
    /\ \E draws \in [1..Len(runs[r].swarm.agents) -> BOOLEAN] :
          LET culturalContext == ContextOrDefault(runs[r].swarm.config.cultural_context)
              reviewResult == peerReviewConsensus(runs[r].task.payload, runs[r].swarm.agents,
                                                  culturalContext, draws)
          IN  /\ \A i \in 1..Len(reviewResult.reviews) : reviewResult.reviews[i].possible
              /\ lastCall' = [op |-> "peerReviewConsensus",
                              args |-> <<runs[r].task.payload, runs[r].swarm.agents,
                                         culturalContext>>]
              /\ lastResult' = reviewResult
              /\ runs' = [runs EXCEPT ![r] =
                     Finished(runs[r], "returned",
                         [taskId |-> runs[r].task.id,
                          agentId |-> Undefined,
                          status |-> IF reviewResult.approved THEN "completed"
                                     ELSE "needs_revision",
                          consensusInfo |-> reviewResult,
                          culturalValidation |-> "none"])]
    /\ UNCHANGED <<agentExpertise, culturalWeights, decisionHistory,
                   expertiseUpdates, culturalUpdates, pending>>
    /\ UNCHANGED <<active_swarms, lastCreate>>
    /\ UNCHANGED managerVars
    /\ UNCHANGED strategyVars

AuctionStep ==
    \E r \in RunIds :
        \/ AuctionAllocated(r)
        \/ AuctionFedBack(r)
        \/ TaskValidated(r)

ConsensusStep ==
    \E r \in RunIds :
        \/ SingleExpertExecuted(r)
        \/ WeightedConsensusExecuted(r)
        \/ FullConsensusExecuted(r)

\* no call of executeSwarmTask is under way
Quiescent == \A r \in RunIds : runs[r].pc \in {"idle", "done"}

\* the calls are made in the order of their numbers
InOrder(r) == \A q \in RunIds : q < r => runs[q].pc # "idle"

\* createSwarm and executeSwarmTask called by a client that awaits each of its
\* calls before it makes the next
AwaitedCreateSwarm == Quiescent /\ CreateSwarm

AwaitedExecuteSwarmTask ==
    \E r \in RunIds : Quiescent /\ InOrder(r) /\ ExecuteSwarmTask(r)

NextOrchestrator ==
    \/ AwaitedCreateSwarm
    \/ AwaitedExecuteSwarmTask
    \/ AuctionStep
    \/ ConsensusStep

SpecOrchestrator == Init /\ [][NextOrchestrator]_vars

\* the swarms the overlapping calls are made on: auction-based, one or two agents
AuctionSwarms ==
    {ActiveSwarm(config) : config \in
        {c \in SwarmConfigurations :
            /\ c.swarm_id = "s1"
            /\ c.coordination_pattern = "auction_based"
            /\ Len(c.agents) > 0}}

\* a manager on which an auction-based swarm was created
InitOverlapping ==
    /\ agentExpertise = EmptyMap
    /\ culturalWeights = EmptyMap
    /\ decisionHistory = <<>>
    /\ expertiseUpdates = 0
    /\ culturalUpdates = 0
    /\ pending = NoCall
    /\ lastCall = NoCall
    /\ lastResult = <<>>
    /\ agents = {}
    /\ tasks = EmptyMap
    /\ exec = EmptyMap
    /\ events = <<>>
    /\ culturalIntelligence = FALSE
    /\ totalTasksCompleted = 0
    /\ agentObjects = EmptyMap
    /\ agentNetworks = EmptyMap
    /\ assignmentLog = <<>>
    /\ \E swarm \in AuctionSwarms : active_swarms = MapSet(EmptyMap, "s1", swarm)
    /\ runs = [r \in RunIds |-> NoRun]
    /\ lastCreate = [op |-> "createSwarm", args |-> <<"s1">>, outcome |-> "returned"]

\* executeSwarmTask called by a client that does not await its calls
OverlappingExecuteSwarmTask ==
    \E r \in RunIds : InOrder(r) /\ ExecuteSwarmTask(r)

NextOverlapping ==
    \/ OverlappingExecuteSwarmTask
    \/ AuctionStep

SpecOverlapping == InitOverlapping /\ [][NextOverlapping]_vars

----------------------------------------------------------------------------
(* What the specification says of the learned tables and of the scores *)

\* agentExpertise(agentId): the learned value, 0.5 before the first update
ExpertiseOf(agentId) ==
    IF agentId \in DOMAIN agentExpertise THEN agentExpertise[agentId] ELSE Rat(1, 2)

\* culturalWeight(context): the learned value, 1.0 before the first update
CulturalWeightOf(context) ==
    IF context \in DOMAIN culturalWeights THEN culturalWeights[context] ELSE One

Clamp(lo, hi, x) == IF RLess(x, lo) THEN lo ELSE IF RLess(hi, x) THEN hi ELSE x

\* 0.30 c + 0.25 e + 0.20 r w(ctx) + 0.15/t + 0.10/k + 0.10 x(agent)
CompositeOf(bid, context) ==
    RSum(<<RMul(Rat(30, 100), bid.confidence),
           RMul(Rat(25, 100), bid.expertise),
           RMul(Rat(20, 100), RMul(bid.culturalRelevance, CulturalWeightOf(context))),
           RDiv(Rat(15, 100), bid.estimatedTime),
           RDiv(Rat(10, 100), bid.resourceCost),
           RMul(Rat(10, 100), ExpertiseOf(bid.agentId))>>)

\* i is the first index of s at which f is maximal
FirstMax(n, f(_), i) ==
    /\ i \in 1..n
    /\ \A j \in 1..n : RLeq(f(j), f(i))
    /\ \A j \in 1..(i - 1) : RLess(f(j), f(i))

AuctionCalled == lastCall.op = "auctionBasedAllocation"

VotingCalled == lastCall.op = "expertiseWeightedVoting"

\* C2: for a non-empty bid list the selected agent is the agent of the first bid
\* in input order whose composite score is maximal, and so one of the bidders.
C2_AuctionSelectsMaxScore ==
    (AuctionCalled /\ Len(lastCall.args[1]) > 0) =>
        LET bids == lastCall.args[1]
            score(i) == CompositeOf(bids[i], lastCall.args[2])
        IN  /\ \E i \in 1..Len(bids) :
                 /\ FirstMax(Len(bids), score, i)
                 /\ lastResult.selectedAgent = bids[i].agentId
            /\ lastResult.selectedAgent \in {bids[i].agentId : i \in 1..Len(bids)}

\* two bids of different agents, tables learned, and the second bid wins
C2_Witness ==
    /\ AuctionCalled
    /\ Len(lastCall.args[1]) = 2
    /\ lastCall.args[1][1].agentId # lastCall.args[1][2].agentId
    /\ DOMAIN agentExpertise # {}
    /\ lastResult.selectedAgent = lastCall.args[1][2].agentId

\* the weight the specification gives proposal i
WeightOf(proposals, context, i) ==
    RMul(RMul(ExpertiseOf(proposals[i].agentId), CulturalWeightOf(context)),
         proposals[i].confidence)

\* C3: for a non-empty proposal list the decision is the first proposal of maximal
\* weight expertise * culturalWeight * confidence, and the confidence is that
\* weight over the sum of the weights of all proposals (0 when the sum is 0),
\* a number within [0, 1].
C3_VotingPicksMaxWeight ==
    (VotingCalled /\ Len(lastCall.args[1]) > 0) =>
        LET proposals == lastCall.args[1]
            weight(i) == WeightOf(proposals, lastCall.args[2], i)
            total == RSum([i \in 1..Len(proposals) |-> weight(i)])
        IN  /\ \E i \in 1..Len(proposals) :
                 /\ FirstMax(Len(proposals), weight, i)
                 /\ lastResult.decision = proposals[i].proposal
                 /\ lastResult.confidence =
                        IF total = Zero THEN Zero ELSE RDiv(weight(i), total)
            /\ RLeq(Zero, lastResult.confidence)
            /\ RLeq(lastResult.confidence, One)

\* the agents of a proposal list are pairwise distinct
DistinctAgents(proposals) ==
    \A i, j \in 1..Len(proposals) : proposals[i].agentId = proposals[j].agentId => i = j

\* the statement of C3 restricted to lists with one proposal per agent
VotingPicksMaxWeightOnePerAgent ==
    (VotingCalled /\ DistinctAgents(lastCall.args[1])) => C3_VotingPicksMaxWeight

ExpertiseInRange ==
    \A id \in DOMAIN agentExpertise :
        RLeq(Rat(1, 10), agentExpertise[id]) /\ RLeq(agentExpertise[id], One)

ExpertiseStep ==
    (expertiseUpdates' = expertiseUpdates + 1) =>
        LET id == lastCall'.args[1]
            perf == lastCall'.args[2]
        IN  /\ lastCall'.op = "updateAgentExpertise"
            /\ id \in DOMAIN agentExpertise'
            /\ agentExpertise'[id] =
                   Clamp(Rat(1, 10), One,
                         RAdd(RMul(Rat(8, 10), ExpertiseOf(id)), RMul(Rat(2, 10), perf)))

\* C8: every stored expertise lies in [0.1, 1.0], and each updateAgentExpertise(id, perf)
\* stores clamp(0.1, 1.0, 0.8 * old + 0.2 * perf) for id, old being 0.5 when id had no entry.
C8_ExpertiseClamped == []ExpertiseInRange /\ [][ExpertiseStep]_vars

\* the lower clamp has acted: repeated poor performance left the agent at 0.1
C8_Witness ==
    /\ lastCall.op = "updateAgentExpertise"
    /\ lastCall.args[2] = Zero
    /\ "A" \in DOMAIN agentExpertise
    /\ agentExpertise["A"] = Rat(1, 10)

WeightsInRange ==
    \A c \in DOMAIN culturalWeights :
        RLeq(Rat(1, 2), culturalWeights[c]) /\ RLeq(culturalWeights[c], Rat(2, 1))

WeightStep ==
    (culturalUpdates' = culturalUpdates + 1) =>
        LET c == lastCall'.args[1]
            eff == lastCall'.args[2]
        IN  /\ lastCall'.op = "updateCulturalWeights"
            /\ c \in DOMAIN culturalWeights'
            /\ culturalWeights'[c] =
                   Clamp(Rat(1, 2), Rat(2, 1),
                         RAdd(RMul(Rat(9, 10), CulturalWeightOf(c)), RMul(Rat(1, 10), eff)))

\* C9: every stored cultural weight lies in [0.5, 2.0], and each
\* updateCulturalWeights(context, effectiveness) stores
\* clamp(0.5, 2.0, 0.9 * old + 0.1 * effectiveness), old being 1.0 when there was no entry.
C9_WeightsClamped == []WeightsInRange /\ [][WeightStep]_vars

\* both clamps have acted: one context sits at 0.5 and the other at 2.0
C9_Witness ==
    /\ lastCall.op = "updateCulturalWeights"
    /\ DOMAIN culturalWeights = Contexts
    /\ culturalWeights["ctx"] = Rat(1, 2)
    /\ culturalWeights["alt"] = Rat(2, 1)

EmptyAuctionStep ==
    /\ pending.op = "auctionBasedAllocation"
    /\ Len(pending.args[1]) = 0
    /\ lastCall # pending
    /\ lastCall' = pending

\* C10: an auction over no bids returns selectedAgent "default", consensusScore 0 and
\* no minority reports, and leaves agentExpertise, culturalWeights and decisionHistory as they were.
C10_EmptyAuction ==
    [][EmptyAuctionStep =>
          /\ lastResult'.selectedAgent = "default"
          /\ lastResult'.consensusScore = Zero
          /\ lastResult'.minorityReports = <<>>
          /\ UNCHANGED <<agentExpertise, culturalWeights, decisionHistory>>]_vars

\* the empty auction was run on an engine whose tables had been trained
C10_Witness ==
    /\ AuctionCalled
    /\ Len(lastCall.args[1]) = 0
    /\ lastResult.selectedAgent = "default"
    /\ DOMAIN agentExpertise \cup DOMAIN culturalWeights # {}

\* the largest composite score among the bids other than bid i, 0 when there is none
SecondScore(bids, context, i) ==
    LET others == (1..Len(bids)) \ {i}
    IN  IF others = {} THEN Zero
        ELSE LET j == CHOOSE j \in others :
                          \A k \in others :
                              RLeq(CompositeOf(bids[k], context), CompositeOf(bids[j], context))
             IN  CompositeOf(bids[j], context)

\* C12: for a non-empty bid list the consensusScore is
\* (topScore - secondScore) * culturalWeight(context) clamped to [0, 1], the second
\* score being 0 for a single bid; so it lies within [0, 1].
C12_ConsensusScoreClamped ==
    (AuctionCalled /\ Len(lastCall.args[1]) > 0) =>
        LET bids == lastCall.args[1]
            context == lastCall.args[2]
            score(i) == CompositeOf(bids[i], context)
            top == CHOOSE i \in 1..Len(bids) : FirstMax(Len(bids), score, i)
            gap == RSub(score(top), SecondScore(bids, context, top))
        IN  /\ lastResult.consensusScore =
                   Clamp(Zero, One, RMul(gap, CulturalWeightOf(context)))
            /\ RLeq(Zero, lastResult.consensusScore)
            /\ RLeq(lastResult.consensusScore, One)

\* the cap has acted: a single bid whose score times the learned weight exceeds 1
C12_Witness ==
    /\ AuctionCalled
    /\ Len(lastCall.args[1]) = 1
    /\ RLess(One, RMul(CompositeOf(lastCall.args[1][1], lastCall.args[2]),
                       CulturalWeightOf(lastCall.args[2])))
    /\ lastResult.consensusScore = One

PeerReviewCalled == lastCall.op = "peerReviewConsensus"

\* C13: with at least one reviewer, approved holds exactly when approvals / reviewers
\* is at least the consensus threshold (so 2 approvals of 3 reviewers are rejected at
\* 0.7), and culturalScore is the mean of the scores of the reviews.
C13_PeerReviewThreshold ==
    (PeerReviewCalled /\ Len(lastCall.args[2]) > 0) =>
        LET reviews == lastResult.reviews
            n == Len(lastCall.args[2])
            approvals == Cardinality({i \in 1..n : reviews[i].approved})
        IN  /\ Len(reviews) = n
            /\ lastResult.approved <=> (approvals * 10 >= 7 * n)
            /\ (n = 3 /\ approvals = 2) => ~lastResult.approved
            /\ RMul(lastResult.culturalScore, Rat(n, 1)) =
                   RSum([i \in 1..n |-> reviews[i].culturalScore])

\* three reviewers, two of them approving, and the content is rejected
C13_Witness ==
    /\ PeerReviewCalled
    /\ Len(lastCall.args[2]) = 3
    /\ Approvals(lastResult.reviews) = 2
    /\ ~lastResult.approved

\* three reviewers who all approve, and the content is approved
PeerReviewApproves ==
    /\ PeerReviewCalled
    /\ Len(lastCall.args[2]) = 3
    /\ Approvals(lastResult.reviews) = 3
    /\ lastResult.approved

AdaptiveCalled == lastCall.op = "adaptiveConsensus"

\* the place agent i of n takes when the agents are ranked by descending rank,
\* ties in input order
PlaceOf(n, rank(_), i) ==
    1 + Cardinality({j \in 1..n :
                        \/ RLess(rank(i), rank(j))
                        \/ rank(j) = rank(i) /\ j < i})

\* the result of adaptiveConsensus the specification describes, rank being the
\* rank of agent i of the list
AdaptiveAsSpecified(rank(_)) ==
    LET taskComplexity == lastCall.args[1]
        agentList == lastCall.args[2]
        n == Len(agentList)
        kept == IF n < 3 THEN n ELSE 3
    IN  /\ lastResult.outcome = "returned"
        /\ \A k \in 1..Len(lastResult.participants) :
               \E i \in 1..n : lastResult.participants[k] = agentList[i]
        /\ taskComplexity = "simple" =>
               /\ lastResult.method = "single_expert"
               /\ lastResult.threshold = Rat(6, 10)
               /\ Len(lastResult.participants) = 1
               /\ \E i \in 1..n : /\ FirstMax(n, rank, i)
                                   /\ lastResult.participants[1] = agentList[i]
        /\ taskComplexity = "moderate" =>
               /\ lastResult.method = "expertise_weighted"
               /\ lastResult.threshold = Rat(7, 10)
               /\ Len(lastResult.participants) = kept
               /\ \A i \in 1..n :
                      PlaceOf(n, rank, i) <= kept =>
                          lastResult.participants[PlaceOf(n, rank, i)] = agentList[i]
        /\ taskComplexity = "complex" =>
               /\ lastResult.method = "full_swarm_consensus"
               /\ lastResult.threshold = Rat(8, 10)
               /\ lastResult.participants = agentList

\* C14: for a non-empty agent list adaptiveConsensus returns, for simple, the one
\* agent ranked highest by agentExpertise(id) * culturalWeight(context); for
\* moderate, the min(3, n) highest-ranked agents in descending rank, ties in input
\* order; for complex, all the agents in input order; each with its method and threshold.
C14_AdaptiveConsensus ==
    (AdaptiveCalled /\ Len(lastCall.args[2]) > 0) =>
        LET rank(i) == RMul(ExpertiseOf(lastCall.args[2][i]),
                            CulturalWeightOf(lastCall.args[3]))
        IN  AdaptiveAsSpecified(rank)

\* the same statement, an agent without a stored expertise being ranked at 0
AdaptiveRanksStoredExpertise ==
    (AdaptiveCalled /\ Len(lastCall.args[2]) > 0) =>
        LET rank(i) ==
                RMul(IF lastCall.args[2][i] \in DOMAIN agentExpertise
                     THEN agentExpertise[lastCall.args[2][i]] ELSE Zero,
                     CulturalWeightOf(lastCall.args[3]))
        IN  AdaptiveAsSpecified(rank)

\* a moderate call over four agents kept three of them
AdaptiveKeepsThree ==
    /\ AdaptiveCalled
    /\ lastCall.args[1] = "moderate"
    /\ Len(lastCall.args[2]) = 4
    /\ Len(lastResult.participants) = 3
    /\ DOMAIN agentExpertise # {}

\* auction scoring reads a missing expertise as 0.5 and a missing weight as 1.0
AuctionReadsDefaults ==
    (AuctionCalled /\ Len(lastCall.args[1]) > 0) =>
        /\ C2_AuctionSelectsMaxScore
        /\ lastResult.culturalAdaptations.agentExpertise = ExpertiseOf(lastResult.selectedAgent)

\* simulated review reads a missing expertise as 0.5 and a missing weight as 1.0
ReviewReadsDefaults ==
    PeerReviewCalled =>
        \A i \in 1..Len(lastCall.args[2]) :
            lastResult.reviews[i].culturalScore =
                RMul(ExpertiseOf(lastCall.args[2][i]), CulturalWeightOf(lastCall.args[3]))

\* the readers other than the top-expert ranking use the defaults
ReadsDefaultsOutsideRanking ==
    /\ AuctionReadsDefaults
    /\ VotingPicksMaxWeightOnePerAgent
    /\ ReviewReadsDefaults

\* C15: every read of the expertise of an agent without an entry uses 0.5 and every
\* read of a missing cultural weight uses 1.0, in auction scoring, voting weights,
\* simulated review and the top-expert ranking of adaptiveConsensus alike.
C15_DefaultsOnEveryRead ==
    /\ ReadsDefaultsOutsideRanking
    /\ C14_AdaptiveConsensus

EmptyVoteStep ==
    /\ pending.op = "expertiseWeightedVoting"
    /\ Len(pending.args[1]) = 0
    /\ lastCall # pending
    /\ lastCall' = pending

\* C11: a vote over no proposals returns decision null, confidence 0 and no
\* participating agents, and appends nothing to decisionHistory.
C11_EmptyVote ==
    [][EmptyVoteStep =>
          /\ lastResult'.decision = "null"
          /\ lastResult'.confidence = Zero
          /\ lastResult'.participatingAgents = <<>>
          /\ UNCHANGED decisionHistory]_vars

\* the empty vote was held on an engine whose tables had been trained
C11_Witness ==
    /\ VotingCalled
    /\ Len(lastCall.args[1]) = 0
    /\ lastResult.decision = "null"
    /\ decisionHistory = <<>>
    /\ DOMAIN agentExpertise \cup DOMAIN culturalWeights # {}

----------------------------------------------------------------------------
(* What the specification says of the task executor *)

Statuses == {"pending", "in_progress", "completed", "failed"}

LegalTransition(from, to) ==
    \/ from = "pending" /\ to = "in_progress"
    \/ from = "in_progress" /\ to \in {"completed", "failed"}

\* C1: the status of a task moves pending -> in_progress -> completed or failed and
\* in no other way; once completed or failed it never changes again, also when a
\* step that runs after the result was recorded raises an error.
C1_StatusLifecycle ==
    [][\A t \in DOMAIN tasks :
          tasks'[t].status # tasks[t].status =>
              LegalTransition(tasks[t].status, tasks'[t].status)]_vars

\* two result objects are the same value: the same entries, in whatever order
SameValue(r1, r2) == {r1[i] : i \in 1..Len(r1)} = {r2[i] : i \in 1..Len(r2)}

\* two result objects have the same serialized form
SameText(r1, r2) == JSONstringify(r1) = JSONstringify(r2)

Occurrences(results, r, Same(_, _)) ==
    Cardinality({i \in 1..Len(results) : Same(results[i], r)})

\* the consensus record is the one the specification describes, results being
\* compared by Same
ConsensusAsSpecified(results, consensus, Same(_, _)) ==
    LET count(i) == <<Occurrences(results, results[i], Same), 1>>
    IN  \E w \in 1..Len(results) :
           /\ FirstMax(Len(results), count, w)
           /\ Same(consensus.decision, results[w])
           /\ consensus.agreementLevel = Rat(count(w)[1], Len(results))
           /\ consensus.confidence = consensus.agreementLevel
           /\ consensus.dissentingOpinions =
                  SelectSeq(results, LAMBDA r : ~Same(r, results[w]))
           /\ count(w)[1] + Len(consensus.dissentingOpinions) = Len(results)

ConsensusRecorded(t) ==
    /\ tasks[t].type = "collaborative"
    /\ tasks[t].status = "completed"
    /\ Len(tasks[t].result) = 1

\* C4: collaborative consensus picks the result value that occurs most often (the
\* first seen on a tie), agreementLevel = confidence = winnerCount / totalResults, and
\* dissentingOpinions are exactly the results that differ from the winner, in input order.
C4_ConsensusMostFrequentValue ==
    \A t \in DOMAIN tasks :
        ConsensusRecorded(t) =>
            ConsensusAsSpecified(exec[t].results, tasks[t].result[1], SameValue)

\* the same statement with results compared by their serialized form
ConsensusMostFrequentText ==
    \A t \in DOMAIN tasks :
        ConsensusRecorded(t) =>
            ConsensusAsSpecified(exec[t].results, tasks[t].result[1], SameText)

\* [X, X, Y] gives X, 2/3 and [Y]
ConsensusExample ==
    \A t \in DOMAIN tasks :
        (ConsensusRecorded(t) /\ exec[t].results = <<ResultX, ResultX, ResultY>>) =>
            /\ tasks[t].result[1].decision = ResultX
            /\ tasks[t].result[1].agreementLevel = Rat(2, 3)
            /\ tasks[t].result[1].dissentingOpinions = <<ResultY>>

Succeeded(calls) == SelectSeq(calls, LAMBDA c : c.outcome = "returned")

CollaborativeFinished(t) ==
    /\ tasks[t].type = "collaborative"
    /\ Len(tasks[t].assignedAgents) > 0
    /\ exec[t].pc = "done"

\* every assigned agent had its turn and consensus ran over the successes only
BatchSurvivesFailures(t) ==
    /\ Len(exec[t].calls) = Len(tasks[t].assignedAgents)
    /\ \A i \in 1..Len(exec[t].calls) : exec[t].calls[i].agentId = tasks[t].assignedAgents[i]
    /\ exec[t].results = [i \in 1..Len(Succeeded(exec[t].calls)) |->
                             Succeeded(exec[t].calls)[i].result]

\* C5: in collaborative execution a throwing agent is excluded and the others are
\* still invoked, consensus runs over the results of the agents that succeeded, the
\* task ends completed if at least one succeeded, and failed with the no-results
\* error if none did.
C5_CollaborativePartialFailure ==
    \A t \in DOMAIN tasks :
        CollaborativeFinished(t) =>
            /\ BatchSurvivesFailures(t)
            /\ IF Len(Succeeded(exec[t].calls)) > 0
               THEN tasks[t].status = "completed"
               ELSE tasks[t].status = "failed" /\ tasks[t].error = "no_results"

\* the same statement, leaving open how a task ends whose completion listener threw
CollaborativePartialFailureUpToListener ==
    \A t \in DOMAIN tasks :
        CollaborativeFinished(t) =>
            /\ BatchSurvivesFailures(t)
            /\ IF Len(Succeeded(exec[t].calls)) > 0
               THEN tasks[t].status = "completed" \/ tasks[t].error = "listener_error"
               ELSE tasks[t].status = "failed" /\ tasks[t].error = "no_results"

\* C6: an execution that raised an error to its caller leaves the task failed, with
\* the error recorded on it, never pending or in_progress.
C6_RaisedErrorMeansFailed ==
    \A t \in DOMAIN tasks :
        exec[t].outcome = "threw" =>
            tasks[t].status = "failed" /\ tasks[t].error # "none"

\* C7: a task marked failed from outside while its agent call was in flight stays
\* failed, gets no result, and no completion notification is emitted for it.
C7_CancelledResultDiscarded ==
    \A t \in DOMAIN tasks :
        exec[t].cancelledInFlight =>
            /\ tasks[t].status = "failed"
            /\ Len(tasks[t].result) = 0
            /\ \A i \in 1..Len(events) : events[i] # <<"task:completed", t>>

----------------------------------------------------------------------------
(* What the specification says of the selection strategies *)

\* how often `agentId` was selected by the calls from..to of the log
TimesSelected(agentId, from, to) ==
    Cardinality({i \in from..to : assignmentLog[i].selected = agentId})

\* every call of the log selected agents[k mod n], k the number of completed tasks
RoundRobinByCounter ==
    LET agentIds == pending.args[1]
    IN  \A i \in 1..Len(assignmentLog) :
            assignmentLog[i].selected
                = agentIds[(assignmentLog[i].completed % Len(agentIds)) + 1]

\* the calls from..to of the log select each agent exactly twice
EachSelectedTwice(from, to) ==
    LET agentIds == pending.args[1]
    IN  \A j \in 1..Len(agentIds) : TimesSelected(agentIds[j], from, to) = 2

\* C16: round-robin selects agents[k mod n], k being the number of tasks completed
\* so far, and any 2n successive round-robin selections pick each of the n agents
\* exactly twice
C16_RoundRobinCycles ==
    LET n == Len(pending.args[1])
    IN  (pending.op = "selectRoundRobin" /\ n > 0) =>
            /\ RoundRobinByCounter
            /\ \A from \in 1..Len(assignmentLog) :
                   from + 2 * n - 1 <= Len(assignmentLog)
                       => EachSelectedTwice(from, from + 2 * n - 1)

\* the part of C16 that holds: the index is the completed-task counter
C16_SelectsByCounter ==
    (pending.op = "selectRoundRobin" /\ Len(pending.args[1]) > 0) => RoundRobinByCounter

\* 2n successive selections between each of which exactly one task completed do
\* pick each agent twice
C16_CyclesWhenEachCompletes ==
    LET n == Len(pending.args[1])
    IN  (pending.op = "selectRoundRobin" /\ n > 0) =>
            \A from \in 1..Len(assignmentLog) :
                (/\ from + 2 * n - 1 <= Len(assignmentLog)
                 /\ \A i \in from..(from + 2 * n - 2) :
                        assignmentLog[i + 1].completed = assignmentLog[i].completed + 1)
                    => EachSelectedTwice(from, from + 2 * n - 1)

\* four selections among two agents with one completion between each two
C16_CyclesReached ==
    /\ Len(pending.args[1]) = 2
    /\ Len(assignmentLog) = 4
    /\ \A i \in 1..3 : assignmentLog[i + 1].completed = assignmentLog[i].completed + 1

\* the position in `agentIds` of the first agent whose workload no agent of the
\* list undercuts
FirstMinimalWorkload(agentIds) ==
    CHOOSE i \in 1..Len(agentIds) :
        /\ \A j \in 1..Len(agentIds) :
               agentObjects[agentIds[i]].workload <= agentObjects[agentIds[j]].workload
        /\ \A j \in 1..(i - 1) :
               agentObjects[agentIds[j]].workload > agentObjects[agentIds[i]].workload

\* every agent of the list is registered
AllRegistered(agentIds) == \A i \in 1..Len(agentIds) : agentIds[i] \in agents

\* C17: least_loaded returns the agent of minimal workload among the registered
\* eligible agents, the first such agent of the input order on a tie, when called
\* directly and when task assignment calls it
C17_LeastLoadedFirstMinimum ==
    /\ (/\ lastCall # NoCall
        /\ lastCall.op = "selectLeastLoaded"
        /\ Len(lastCall.args[1]) > 0
        /\ AllRegistered(lastCall.args[1]))
           => lastResult
                = Returned(lastCall.args[1][FirstMinimalWorkload(lastCall.args[1])])
    /\ (/\ lastCall # NoCall
        /\ lastCall.op = "assignIndividualTask"
        /\ lastCall.args[1] = "least_loaded"
        /\ Len(findEligibleAgents(lastCall.args[2])) > 0)
           => LET eligibleAgents == findEligibleAgents(lastCall.args[2])
              IN  lastResult
                    = Returned(<<eligibleAgents[FirstMinimalWorkload(eligibleAgents)]>>)

\* A with workload 3, B with 1 and C with 5 were given and B was returned
C17_Witness ==
    /\ lastCall # NoCall
    /\ lastCall.op = "selectLeastLoaded"
    /\ lastCall.args[1] = <<"A", "B", "C">>
    /\ agents = {"A", "B", "C"}
    /\ agentObjects["A"].workload = 3
    /\ agentObjects["B"].workload = 1
    /\ agentObjects["C"].workload = 5
    /\ lastResult = Returned("B")

\* the weighted score of the specification for a registered agent, the speed term
\* max(0, 10 - avgCompletionTime / 1000) weighted by `speedWeight`
WeightedScore(agentId, requiredCapabilities, speedWeight) ==
    LET agent == agentObjects[agentId]
        recentPerformance == RecentPerformance(agent.performanceHistory)
        accuracyTerm ==
            IF Len(recentPerformance) = 0 THEN Zero
            ELSE RMul(Rat(1, 5),
                      RDiv(AverageAccuracy(recentPerformance), Rat(10, 1)))
        speedTerm ==
            IF Len(recentPerformance) = 0 THEN Zero
            ELSE RMul(speedWeight,
                      RMax(Zero,
                           RSub(Rat(10, 1),
                                RDiv(AverageCompletionTime(recentPerformance),
                                     Rat(1000, 1)))))
    IN  RAdd(RAdd(RAdd(RAdd(RMul(Rat(2, 5),
                                 Rat(CapabilityMatches(agentId, requiredCapabilities),
                                     Len(requiredCapabilities))),
                            accuracyTerm),
                       speedTerm),
                  RMul(Rat(1, 5), agentNetworks[agentId].centrality)),
             RMul(Rat(1, 10), Rat(agent.trustScore, 100)))

\* the position in `agentIds` of the first agent of maximal weighted score
FirstMaximalScore(agentIds, requiredCapabilities, speedWeight) ==
    CHOOSE i \in 1..Len(agentIds) :
        /\ \A j \in 1..Len(agentIds) :
               RLeq(WeightedScore(agentIds[j], requiredCapabilities, speedWeight),
                    WeightedScore(agentIds[i], requiredCapabilities, speedWeight))
        /\ \A j \in 1..(i - 1) :
               RLess(WeightedScore(agentIds[j], requiredCapabilities, speedWeight),
                     WeightedScore(agentIds[i], requiredCapabilities, speedWeight))

\* selectIntelligently was called with registered agents and a task that requires
\* at least one capability
IntelligentCalled ==
    /\ lastCall # NoCall
    /\ lastCall.op = "selectIntelligently"
    /\ Len(lastCall.args[1]) > 0
    /\ AllRegistered(lastCall.args[1])
    /\ Len(lastCall.args[2]) > 0

\* selectIntelligently returned the first agent of maximal weighted score
IntelligentAgrees(speedWeight) ==
    IntelligentCalled =>
        lastResult
          = Returned(lastCall.args[1][FirstMaximalScore(lastCall.args[1], lastCall.args[2],
                                                        speedWeight)])

\* C18: the intelligent strategy returns the agent that maximizes
\* 0.40 * match + 0.20 * accuracy / 10 + 0.10 * max(0, 10 - time / 1000)
\* + 0.20 * centrality + 0.10 * trust / 100, the performance terms being 0 without
\* history and the first agent of the input winning ties
C18_IntelligentMaximizesWeightedScore == IntelligentAgrees(Rat(1, 10))

\* what the code maximizes: the same score with the speed term weighted 0.01, its
\* 0..10 points being added to a score out of 100
IntelligentMaximizesPoints == IntelligentAgrees(Rat(1, 100))

\* the two weightings rank the agents of a call differently
IntelligentWeightingsDiffer ==
    /\ IntelligentCalled
    /\ FirstMaximalScore(lastCall.args[1], lastCall.args[2], Rat(1, 10))
         # FirstMaximalScore(lastCall.args[1], lastCall.args[2], Rat(1, 100))

\* for a task that requires no capability every score is NaN and the first agent
\* given is returned, whatever the other terms are
IntelligentWithoutRequirement ==
    (/\ lastCall # NoCall
     /\ lastCall.op = "selectIntelligently"
     /\ Len(lastCall.args[1]) > 0
     /\ AllRegistered(lastCall.args[1])
     /\ Len(lastCall.args[2]) = 0)
        => lastResult = Returned(lastCall.args[1][1])

\* one of the four strategies was called with no agent
EmptyStrategyCall ==
    /\ lastCall # NoCall
    /\ lastCall.op \in {"selectRoundRobin", "selectLeastLoaded",
                        "selectByCapability", "selectIntelligently"}
    /\ Len(lastCall.args[1]) = 0

\* assignIndividualTask was called
AssignCalled ==
    /\ lastCall # NoCall
    /\ lastCall.op = "assignIndividualTask"

\* the agents of a list
ListedAgents(agentIds) == {agentIds[i] : i \in 1..Len(agentIds)}

\* task assignment reports no assignment when no agent is eligible, and otherwise
\* exactly one agent, which is eligible
AssignmentAsSpecified ==
    AssignCalled =>
        LET eligibleAgents == findEligibleAgents(lastCall.args[2])
        IN  IF Len(eligibleAgents) = 0
            THEN lastResult = Returned(<<>>)
            ELSE /\ lastResult.outcome = "returned"
                 /\ Len(lastResult.value) = 1
                 /\ lastResult.value[1] \in ListedAgents(eligibleAgents)

\* C19: with no eligible agent each of the strategies round_robin, least_loaded,
\* capability_based and intelligent fails with an error and task assignment reports
\* an empty list; with eligible agents assignment returns exactly one of them
C19_EmptyEligibleSetFails ==
    /\ EmptyStrategyCall => lastResult.outcome = "threw"
    /\ AssignmentAsSpecified

\* the same for the three strategies that check their argument
EmptyEligibleSetFailsButRoundRobin ==
    /\ (EmptyStrategyCall /\ lastCall.op # "selectRoundRobin")
           => lastResult.outcome = "threw"
    /\ AssignmentAsSpecified

\* selectRoundRobin returns undefined when it is given no agent
RoundRobinReturnsUndefined ==
    (EmptyStrategyCall /\ lastCall.op = "selectRoundRobin")
        => lastResult = Returned(Undefined)

\* an assignment with no eligible agent, and a round-robin call with no agent
AssignedNone ==
    /\ AssignCalled
    /\ lastResult = Returned(<<>>)

EmptyRoundRobinCalled ==
    /\ EmptyStrategyCall
    /\ lastCall.op = "selectRoundRobin"

\* decomposeTask was called
DecomposeCalled ==
    /\ lastCall # NoCall
    /\ lastCall.op = "decomposeTask"

\* C20: decomposeTask on a task with required capabilities c_1..c_n yields n
\* subtasks in capability order; subtask i requires just c_i, names the parent in
\* parentTaskId, inherits the parent's priority, deadline and dependencies and is
\* pending; the subtask ids are pairwise distinct; no capability, no subtask
C20_DecomposePerCapability ==
    DecomposeCalled =>
        LET taskId == lastCall.args[1]
            task == lastCall.args[2]
        IN  /\ Len(lastResult) = Len(task.requiredCapabilities)
            /\ \A i \in 1..Len(lastResult) :
                   /\ lastResult[i].requiredCapabilities = <<task.requiredCapabilities[i]>>
                   /\ lastResult[i].parentTaskId = taskId
                   /\ lastResult[i].priority = task.priority
                   /\ lastResult[i].deadline = task.deadline
                   /\ lastResult[i].dependencies = task.dependencies
                   /\ lastResult[i].status = "pending"
            /\ \A i, j \in 1..Len(lastResult) :
                   lastResult[i].id = lastResult[j].id => i = j
            /\ task.requiredCapabilities = <<>> => lastResult = <<>>

\* a task requiring a then b, with a deadline and a dependency, was decomposed
C20_Witness ==
    /\ DecomposeCalled
    /\ lastCall.args[2].requiredCapabilities = <<"a", "b">>
    /\ lastCall.args[2].deadline # NoDeadline
    /\ lastCall.args[2].dependencies # <<>>
    /\ Len(lastResult) = 2
    /\ lastResult[2].requiredCapabilities = <<"b">>

\* a task requiring no capability was decomposed into nothing
DecomposedNothing ==
    /\ DecomposeCalled
    /\ lastCall.args[2].requiredCapabilities = <<>>
    /\ lastResult = <<>>

----------------------------------------------------------------------------
(* What the specification says of distributed execution *)

\* agent.availableCapabilities of the agents that may be registered
AvailableCapabilities ==
    [a \in AgentIds |-> IF a = "A" THEN {"a"} ELSE {"a", "b"}]

\* a registered agent has the capability the subtask requires
HasEligibleAgent(subtask) ==
    \E a \in agents : subtask.requiredCapabilities[1] \in AvailableCapabilities[a]

\* the aggregate executeDistributedTask holds once aggregateSubtaskResults returned
AggregateAfter(t) ==
    IF exec'[t].pc = "await_validation" THEN exec'[t].value[1] ELSE tasks'[t].result[1]

\* the step of executeDistributedTask that runs the loop over the subtasks and
\* aggregates
AggregatingStep(t) ==
    /\ t \in DOMAIN exec
    /\ exec[t].pc = "await_decompose"
    /\ exec'[t].pc # "await_decompose"

\* C21: in distributed execution every subtask whose capability has an eligible
\* registered agent is executed exactly once and its result is in the aggregate, in
\* subtask order; a subtask no agent can be assigned to is skipped, and the parent
\* task still ends completed
C21_DistributedRunsEligibleSubtasks ==
    [][\A t \in DOMAIN tasks :
          AggregatingStep(t) =>
              /\ Len(AggregateAfter(t).subtaskResults)
                   = Len(SelectSeq(decomposeTask(t, tasks[t]), HasEligibleAgent))
              /\ exec'[t].pc = "await_validation" \/ tasks'[t].status = "completed"]_vars

\* what the code does: no subtask is assigned, none is executed, the aggregate of
\* no result is recorded and the parent is completed (or awaits validation)
DistributedRunsNoSubtask ==
    [][\A t \in DOMAIN tasks :
          AggregatingStep(t) =>
              /\ AggregateAfter(t).subtaskResults = <<>>
              /\ AggregateAfter(t).result = ""
              /\ AggregateAfter(t).confidence = NaN
              /\ exec'[t].pc = "await_validation" \/ tasks'[t].status = "completed"]_vars

\* a distributed task was aggregated while an agent with its capability was
\* registered
DistributedWithEligibleAgent ==
    \E t \in DOMAIN tasks :
        /\ tasks[t].type = "distributed"
        /\ tasks[t].status = "completed"
        /\ \E i \in 1..Len(tasks[t].requiredCapabilities) :
               HasEligibleAgent(decomposeTask(t, tasks[t])[i])

----------------------------------------------------------------------------
(* What the specification says of the metrics, the learned tables and the history *)

MetricsCalled == lastCall.op = "getConsensusMetrics"

\* the mean confidence of the recorded decisions
MeanConfidence ==
    RDiv(RSum([i \in 1..Len(decisionHistory) |-> decisionHistory[i].confidence]),
         Rat(Len(decisionHistory), 1))

\* a number within [0, 1]
InUnitInterval(x) == x[2] > 0 /\ RLeq(Zero, x) /\ RLeq(x, One)

\* the metrics returned on a history that holds a decision
MetricsOfDecisions ==
    (MetricsCalled /\ Len(decisionHistory) > 0) =>
        /\ lastResult.totalDecisions = Len(decisionHistory)
        /\ lastResult.averageConfidence = MeanConfidence
        /\ InUnitInterval(lastResult.averageConfidence)

\* the metrics returned on the empty history
MetricsOfNoDecision ==
    (MetricsCalled /\ Len(decisionHistory) = 0) =>
        /\ lastResult.totalDecisions = 0
        /\ lastResult.averageConfidence = Zero
        /\ lastResult.culturalCoverage = 0

\* a call of getConsensusMetrics changes nothing
MetricsStep ==
    lastCall'.op = "getConsensusMetrics" =>
        UNCHANGED <<agentExpertise, culturalWeights, decisionHistory>>

\* C23: getConsensusMetrics on the empty history returns totalDecisions 0,
\* averageConfidence 0 and culturalCoverage 0; in every state averageConfidence is
\* a number in [0, 1], the mean confidence of the recorded decisions; the call
\* changes no state
C23_MetricsOfHistory ==
    /\ [](MetricsOfNoDecision /\ MetricsOfDecisions)
    /\ [][MetricsStep]_vars

\* the same but for the average on the empty history, which is NaN
MetricsButEmptyAverage ==
    /\ [](MetricsOfDecisions
          /\ ((MetricsCalled /\ Len(decisionHistory) = 0) =>
                 /\ lastResult.totalDecisions = 0
                 /\ lastResult.averageConfidence = NaN
                 /\ lastResult.culturalCoverage = 0))
    /\ [][MetricsStep]_vars

\* metrics were read on a history of two decisions
MetricsOfTwoDecisions ==
    /\ MetricsCalled
    /\ Len(decisionHistory) = 2

\* the operations that only read the learned tables
ReadingOps ==
    {"auctionBasedAllocation", "expertiseWeightedVoting", "peerReviewConsensus",
     "adaptiveConsensus", "getConsensusMetrics"}

\* the map changed at most in the entry of key k
ChangedOnlyAt(before, after, k) ==
    /\ DOMAIN after \subseteq DOMAIN before \cup {k}
    /\ \A x \in DOMAIN before : x # k => (x \in DOMAIN after /\ after[x] = before[x])

\* a step of the engine seen by the tables
TablesStep ==
    /\ lastCall'.op \in ReadingOps => UNCHANGED <<agentExpertise, culturalWeights>>
    /\ lastCall'.op = "updateAgentExpertise" =>
           /\ ChangedOnlyAt(agentExpertise, agentExpertise', lastCall'.args[1])
           /\ UNCHANGED culturalWeights
    /\ lastCall'.op = "updateCulturalWeights" =>
           /\ ChangedOnlyAt(culturalWeights, culturalWeights', lastCall'.args[1])
           /\ UNCHANGED agentExpertise
    /\ (agentExpertise' # agentExpertise \/ culturalWeights' # culturalWeights) =>
           lastCall'.op \in {"updateAgentExpertise", "updateCulturalWeights"}

\* C24: updateAgentExpertise and updateCulturalWeights are the only operations that
\* change the learned tables; the five other operations leave both unchanged;
\* updateAgentExpertise(id, _) changes only the entry of id and no cultural weight,
\* updateCulturalWeights(ctx, _) only the entry of ctx and no expertise
C24_OnlyUpdatesChangeTables == [][TablesStep]_vars

\* the second of two updates left the entry of the first as it was
C24_Witness ==
    /\ lastCall.op = "updateAgentExpertise"
    /\ lastCall.args = <<"B", One>>
    /\ DOMAIN agentExpertise = {"A", "B"}
    /\ agentExpertise["A"] = Rat(2, 5)
    /\ culturalWeights = EmptyMap

\* a reading operation was called on tables that hold an entry each
ReadTablesWithEntries ==
    /\ lastCall.op \in ReadingOps
    /\ DOMAIN agentExpertise # {}
    /\ DOMAIN culturalWeights # {}

\* the step is a call of expertiseWeightedVoting with at least one proposal
VotingStep ==
    /\ lastCall'.op = "expertiseWeightedVoting"
    /\ Len(lastCall'.args[1]) > 0

\* a step of the engine seen by the history
HistoryStep ==
    /\ Len(decisionHistory') >= Len(decisionHistory)
    /\ SubSeq(decisionHistory', 1, Len(decisionHistory)) = decisionHistory
    /\ VotingStep =>
           /\ Len(decisionHistory') = Len(decisionHistory) + 1
           /\ decisionHistory'[Len(decisionHistory')].participatingAgents
                = [i \in 1..Len(lastCall'.args[1]) |-> lastCall'.args[1][i].agentId]
    /\ ~VotingStep => decisionHistory' = decisionHistory

\* C25: decisionHistory is append-only: a call of expertiseWeightedVoting with a
\* non-empty proposal list appends exactly one decision, whose participatingAgents
\* are the agents of the proposals in input order; no operation removes, reorders
\* or alters an entry; getConsensusMetrics().totalDecisions is the number of those
\* calls
C25_HistoryAppendOnly ==
    /\ [][HistoryStep]_vars
    /\ [](MetricsCalled => lastResult.totalDecisions = Len(decisionHistory))

\* a second vote on two proposals was recorded behind the first
C25_Witness ==
    /\ lastCall.op = "expertiseWeightedVoting"
    /\ Len(lastCall.args[1]) = 2
    /\ Len(decisionHistory) = 2
    /\ decisionHistory[2].participatingAgents = <<"B", "A">>

\* C28: for every non-empty proposal list, lists with several proposals of one
\* agent included, the decision is a proposal whose own weight is the largest of
\* the list and the confidence is that weight over the sum of the weights of all
\* the proposals
C28_VotingWithRepeatedAgents ==
    (VotingCalled /\ Len(lastCall.args[1]) > 0) =>
        LET proposals == lastCall.args[1]
            weight(i) == WeightOf(proposals, lastCall.args[2], i)
            total == RSum([i \in 1..Len(proposals) |-> weight(i)])
        IN  \E i \in 1..Len(proposals) :
                /\ \A j \in 1..Len(proposals) : RLeq(weight(j), weight(i))
                /\ lastResult.decision = proposals[i].proposal
                /\ total # Zero => lastResult.confidence = RDiv(weight(i), total)

\* what the code returns when an agent proposes twice: the agent's first
\* proposal, its confidence computed from the weights of the last proposal of
\* each agent
VotingKeepsLastWeightFirstProposal ==
    (/\ VotingCalled
     /\ Len(lastCall.args[1]) = 2
     /\ lastCall.args[1][1].agentId = lastCall.args[1][2].agentId) =>
        /\ lastResult.decision = lastCall.args[1][1].proposal
        /\ lastResult.confidence
             = IF WeightOf(lastCall.args[1], lastCall.args[2], 2) = Zero THEN Zero ELSE One

\* a vote on two proposals of one agent
VotedOnRepeatedAgent ==
    /\ VotingCalled
    /\ Len(lastCall.args[1]) = 2
    /\ lastCall.args[1][1].agentId = lastCall.args[1][2].agentId
    /\ lastCall.args[1][1].proposal # lastCall.args[1][2].proposal

----------------------------------------------------------------------------
(* What the specification says of the orchestrator *)

\* the record attached to a result whose validation failed
DegradedValidation ==
    [passed |-> TRUE, confidence |-> Rat(1, 2), riskLevel |-> "caution"]

\* the call r of executeSwarmTask ends with this step
Finishing(r) == runs[r].pc # "done" /\ runs'[r].pc = "done"

\* a step of the orchestrator seen by the validation of results
ValidationStep ==
    \A r \in RunIds :
        /\ (runs[r].pc = "await_validation" /\ Finishing(r) /\ runs'[r].validator = "threw")
               => /\ runs'[r].outcome = "returned"
                  /\ runs'[r].result.status = "completed"
                  /\ runs'[r].result.taskId = runs[r].task.id
                  /\ runs'[r].result.culturalValidation = DegradedValidation
        /\ (runs[r].pc \in {"await_auction", "await_plan"} /\ Finishing(r)
              /\ runs[r].task.cultural_context = NoContext)
               => /\ runs'[r].outcome = "returned"
                  /\ runs'[r].result.culturalValidation = "none"
        /\ runs'[r].pc = "await_validation" => runs[r].task.cultural_context # NoContext

ReturnedWithoutValidation ==
    \E r \in RunIds :
        /\ runs[r].pc = "done"
        /\ runs[r].outcome = "returned"
        /\ runs[r].result.agentId \in AgentIds
        /\ runs[r].result.culturalValidation = "none"

\* one learning update of an expertise with a performance, as specified
ExpertiseAfter(expertise, performance) ==
    Clamp(Rat(1, 10), One,
          RAdd(RMul(Rat(4, 5), expertise), RMul(Rat(1, 5), performance)))

\* the call r has returned the result of an auction
AuctionReturned(r) ==
    /\ runs[r].pc = "done"
    /\ runs[r].outcome = "returned"

\* the calls r and q have both fed the outcome of their auction back for one
\* agent, and nothing else has
BothFedBack(r, q) ==
    /\ r # q
    /\ AuctionReturned(r)
    /\ AuctionReturned(q)
    /\ runs[r].result.agentId = runs[q].result.agentId
    /\ expertiseUpdates = 2

\* C26: two auction-based executions that overlap and feed an outcome back for
\* the same agent lose no update: the agent's expertise is what the two updates
\* give when applied one after the other, in one order or the other
C26_NoLostExpertiseUpdate ==
    \A r, q \in RunIds :
        BothFedBack(r, q) =>
            LET a == runs[r].result.agentId
                p == runs[r].result.consensusInfo.consensusScore
                s == runs[q].result.consensusInfo.consensusScore
            IN  /\ a \in DOMAIN agentExpertise
                /\ agentExpertise[a] \in
                      {ExpertiseAfter(ExpertiseAfter(Rat(1, 2), p), s),
                       ExpertiseAfter(ExpertiseAfter(Rat(1, 2), s), p)}

\* two executions fed different outcomes back for the same agent
C26_Witness ==
    \E r, q \in RunIds :
        /\ BothFedBack(r, q)
        /\ runs[r].result.consensusInfo.consensusScore
              # runs[q].result.consensusInfo.consensusScore

\* the second call has returned while the first still awaits its allocation
SecondOvertookFirst ==
    /\ runs[1].pc = "await_bids"
    /\ AuctionReturned(2)
    /\ runs[2].result.agentId \in {runs[1].bids[i].agentId : i \in 1..Len(runs[1].bids)}

\* the call r of executeSwarmTask is made in this step, with a swarm id that no
\* createSwarm has registered
CalledOnUnknownSwarm(r) ==
    /\ runs[r].pc = "idle"
    /\ runs'[r].pc # "idle"
    /\ runs'[r].swarm_id \notin DOMAIN active_swarms

\* createSwarm is called in this step without a swarm id
CreateCalledWithoutId ==
    /\ lastCreate' # lastCreate
    /\ lastCreate'.args[1] = ""

\* a step of the orchestrator seen by the two rejections
RejectionStep ==
    /\ \A r \in RunIds :
          CalledOnUnknownSwarm(r) =>
              /\ runs'[r].pc = "done"
              /\ runs'[r].outcome = "threw"
              /\ runs'[r].result = "not found"
              /\ UNCHANGED <<active_swarms, agentExpertise, culturalWeights,
                             decisionHistory, expertiseUpdates, culturalUpdates>>
              /\ UNCHANGED <<lastCall, lastResult>>
    /\ CreateCalledWithoutId =>
              /\ lastCreate'.outcome = "threw"
              /\ UNCHANGED active_swarms
    /\ "" \notin DOMAIN active_swarms'

\* C27: executeSwarmTask with a swarm id that was never created raises an error,
\* runs no allocation or consensus step and changes neither the registered
\* swarms nor the learned tables nor the decision history; createSwarm without a
\* swarm id raises an error and registers no swarm
C27_UnknownSwarmAndMissingIdRejected == [][RejectionStep]_vars

\* executeSwarmTask was rejected for an unknown swarm id on a manager that has a
\* swarm and learned expertise
C27_Witness ==
    \E r \in RunIds :
        /\ runs[r].pc = "done"
        /\ runs[r].swarm_id = "s9"
        /\ runs[r].outcome = "threw"
        /\ runs[r].result = "not found"
        /\ DOMAIN active_swarms = {"s1"}
        /\ DOMAIN agentExpertise # {}

\* createSwarm was rejected on a manager that has a swarm
CreateRejected ==
    /\ lastCreate.op = "createSwarm"
    /\ lastCreate.outcome = "threw"
    /\ DOMAIN active_swarms = {"s1"}

\* adaptiveConsensus was last called for a simple task with no agent
SimplePlanWithoutAgents ==
    /\ lastCall.op = "adaptiveConsensus"
    /\ lastCall.args[1] = "simple"
    /\ lastCall.args[2] = <<>>

\* the call r of executeSwarmTask holds a single_expert plan without participant,
\* or has returned the completed result of 'default_agent'
FallsBackToDefaultAgent(r) ==
    \/ /\ runs[r].pc = "await_plan"
       /\ runs[r].plan.method = "single_expert"
       /\ runs[r].plan.participants = <<>>
    \/ /\ runs[r].pc = "done"
       /\ runs[r].outcome = "returned"
       /\ runs[r].result.agentId = "default_agent"
       /\ runs[r].result.status = "completed"

\* C29: for a consensus-driven task of simple complexity on a swarm with no
\* agents, adaptiveConsensus returns a plan (single_expert, threshold 0.6) without
\* raising, and the execution falls back to 'default_agent' and returns a
\* completed result
C29_SimpleTaskFallsBackToDefaultAgent ==
    SimplePlanWithoutAgents =>
        /\ lastResult.outcome = "returned"
        /\ lastResult.method = "single_expert"
        /\ lastResult.threshold = Rat(3, 5)
        /\ \E r \in RunIds : FallsBackToDefaultAgent(r)

\* a step of the orchestrator seen by the single_expert plans: the expert of the
\* plan, an agent of the swarm, executes the task
SingleExpertStep ==
    \A r \in RunIds :
        (runs[r].pc = "await_plan" /\ runs[r].plan.method = "single_expert"
            /\ runs'[r].pc = "done")
        => /\ runs'[r].outcome = "returned"
           /\ runs'[r].result.agentId = runs[r].plan.participants[1]
           /\ runs'[r].result.agentId \in
                 {runs[r].swarm.agents[i] : i \in 1..Len(runs[r].swarm.agents)}
           /\ runs'[r].result.status = "completed"

\* a simple task on a swarm with agents is executed by the expert of the plan
SimpleTaskRunsOnExpert == [][SingleExpertStep]_vars

\* a consensus-driven execution of a simple task was rejected with a TypeError
SimpleTaskRejected ==
    /\ SimplePlanWithoutAgents
    /\ lastResult.outcome = "threw"
    /\ \E r \in RunIds :
          /\ runs[r].pc = "done"
          /\ runs[r].outcome = "threw"
          /\ runs[r].result = "TypeError"

\* the agents of a swarm
SwarmAgents(swarm) == {swarm.agents[i] : i \in 1..Len(swarm.agents)}

\* the call r feeds the outcome of its auction back in this step
FeedingBack(r) == runs[r].pc = "await_auction" /\ runs'[r].pc # "await_auction"

\* a step of the orchestrator seen by the expertise table, the selected agent
\* being one of the swarm
SwarmAgentEntryStep ==
    /\ \A r \in RunIds :
          FeedingBack(r) =>
              /\ runs[r].plan.selectedAgent \in SwarmAgents(runs[r].swarm)
              /\ runs[r].plan.selectedAgent \in DOMAIN agentExpertise'
              /\ ChangedOnlyAt(agentExpertise, agentExpertise', runs[r].plan.selectedAgent)
    /\ (\A r \in RunIds : ~FeedingBack(r)) => UNCHANGED agentExpertise

\* C30: after any sequence of createSwarm and executeSwarmTask calls, auctions on
\* a swarm with no agents included, every key of agentExpertise is the id of an
\* agent of a created swarm, and each auction-based execution changes the
\* expertise entry of exactly the agent it selected
C30_ExpertiseKeysAreSwarmAgents == [][SwarmAgentEntryStep]_vars

\* a step of the orchestrator seen by the expertise table, whoever is selected
SelectedEntryStep ==
    /\ \A r \in RunIds :
          FeedingBack(r) =>
              /\ runs[r].plan.selectedAgent \in DOMAIN agentExpertise'
              /\ ChangedOnlyAt(agentExpertise, agentExpertise', runs[r].plan.selectedAgent)
    /\ (\A r \in RunIds : ~FeedingBack(r)) => UNCHANGED agentExpertise

\* each auction-based execution changes the entry of the agent it selected only
ExpertiseChangesAtSelected == [][SelectedEntryStep]_vars

\* the expertise table has an entry for 'default', which is no agent of a swarm
ExpertiseOfNoAgent ==
    /\ "default" \in DOMAIN agentExpertise
    /\ \A s \in DOMAIN active_swarms : "default" \notin SwarmAgents(active_swarms[s])

====
